---- MODULE Spec2Model ----
(***************************************************************************)
(* Model of the tool-use orchestration loop of the book assistant:         *)
(* ResponseService.generate_full_response and _handle_tool_use             *)
(* (responseService.py), the conversation store they write (db.py), the    *)
(* Gateway they call (services/anthropic_service.py) and the two front     *)
(* ends that call the service: the CLI (main.py) and the send_message      *)
(* endpoint (api.py), with the other conversation endpoints of api.py and  *)
(* the sessions they check (user_manager.py).                              *)
(*                                                                         *)
(* Text is a sequence of tokens (strings); a token is a character of an    *)
(* utterance or a literal chunk of a template.  The Gateway and the tool   *)
(* handlers are the environment: every response, result and exception is   *)
(* chosen from a small set.                                                *)
(***************************************************************************)
EXTENDS Integers, Sequences, FiniteSets, TLC

\* ------------------------------------------------------------------ bounds

\* Turns (calls of generate_full_response) in one behaviour.
MaxTurns == 1
\* Responses with stop reason tool_use the Gateway gives in one behaviour.
MaxRounds == 2
\* Seconds the clock advances in one behaviour.
MaxClock == 0
\* Earlier requests to send_message a stored conversation comes from.
MaxPriorTurns == 2
\* Requests to the REST endpoints in one behaviour.
MaxRequests == 2
\* Responses with stop reason tool_use the Gateway gives one request thread.
MaxThreadRounds == 1

\* The most create_message calls a run makes when the Gateway gives MaxRounds
\* responses with stop reason tool_use: the first call, and for every round
\* the call of the try block and the call of the except branch.
MaxCalls == 1 + 2 * MaxRounds

\* ------------------------------------------------------------ basic values

None == "None"

\* The conversation ids the callers pass: None (the CLI) or a stored id.
ConversationIds == {None, "1"}

\* The conversations the REST front end is asked for, and user['id'] of the
\* session.
StoredConversationIds == ConversationIds \ {None}
SessionUserId == "7"

Utterances == { <<"H", "i">>, <<"W", "h", "e", "n">> }

\* The registered users: alice, of id SessionUserId, registered with a
\* password, and bob, registered without one.
OtherUserId == "8"
AlicePassword == "wonderland"
\* What the requests to the endpoints carry.
Usernames == {None, "alice", "bob", "carol"}
Passwords == {None, AlicePassword, "guess"}
RequestedConversationIds == {"1", "2", "3"}
Titles == {None, "Tolkien"}
\* The message of a request to send_message: a text, or none.
RequestedMessages == { <<"H", "i">>, <<>> }

Digit == <<"1", "2", "3", "4", "5", "6", "7", "8", "9", "10", "11", "12",
           "13", "14", "15", "16", "17", "18", "19", "20">>

\* ------------------------------------------------------------------- text

RECURSIVE Concat(_)
\* "".join(parts)
Concat(parts) ==
    IF parts = <<>> THEN <<>> ELSE Head(parts) \o Concat(Tail(parts))

RECURSIVE Join(_, _)
\* sep.join(parts)
Join(sep, parts) ==
    IF parts = <<>> THEN <<>>
    ELSE IF Len(parts) = 1 THEN parts[1]
    ELSE parts[1] \o sep \o Join(sep, Tail(parts))

\* needle in haystack (substring test of Python's "in" on str)
Contains(haystack, needle) ==
    \E i \in 1..(Len(haystack) - Len(needle) + 1) :
        SubSeq(haystack, i, i + Len(needle) - 1) = needle

LowerChar(c) ==
    CASE c = "H" -> "h"
      [] c = "I" -> "i"
      [] c = "T" -> "t"
      [] c = "W" -> "w"
      [] OTHER -> c

\* str.lower()
Lower(s) == [i \in 1..Len(s) |-> LowerChar(s[i])]

\* ------------------------------------------------------------------- JSON

\* Values a handler returns or the loop builds: a list of strings or a
\* one-key mapping.
JList(items) == [kind |-> "list", items |-> items, key |-> <<>>, val |-> <<>>]
\* A plain string, such as the "Customer not found" of get_customer_info.
JStr(text) == [kind |-> "str", items |-> <<>>, key |-> <<>>, val |-> text]
JDict(k, v) == [kind |-> "dict", items |-> <<>>, key |-> k, val |-> v]
\* {}
JEmpty == [kind |-> "dict", items |-> <<>>, key |-> <<>>, val |-> <<>>]

Quoted(s) == <<"\"">> \o s \o <<"\"">>

\* json.dumps(value)
JsonDumps(v) ==
    IF v.kind = "str" THEN Quoted(v.val)
    ELSE IF v.kind = "list"
    THEN <<"[">> \o Join(<<", ">>, [i \in 1..Len(v.items) |-> Quoted(v.items[i])])
               \o <<"]">>
    ELSE IF v = JEmpty THEN <<"{}">>
    ELSE <<"{">> \o Quoted(v.key) \o <<": ">> \o Quoted(v.val) \o <<"}">>

\* ---------------------------------------------------------- tool registry

\* TOOL_HANDLERS
TOOL_HANDLERS == {"list_books", "get_book_details", "list_genres", "list_authors"}

\* Mutant: create_message is called without tool schemas.
TOOLS_None == <<>>

\* TOOLS: the schemas passed to every create_message call
TOOLS == <<"list_books", "get_book_details", "list_genres", "list_authors">>


\* RESPONSE_FORMATTERS is not used by generate_full_response.

\* ------------------------------------------------- content blocks, messages

\* A content block of a response or of a message (anthropic SDK objects and
\* the dicts the loop builds), with every field present.
TextBlock(t) ==
    [type |-> "text", text |-> t, id |-> "", name |-> "", input |-> JEmpty,
     tool_use_id |-> "", content |-> <<>>]

ToolUseBlock(id, name, input) ==
    [type |-> "tool_use", text |-> <<>>, id |-> id, name |-> name, input |-> input,
     tool_use_id |-> "", content |-> <<>>]

\* {"type": "tool_result", "tool_use_id": ..., "content": ...}
ToolResultBlock(tuid, content) ==
    [type |-> "tool_result", text |-> <<>>, id |-> "", name |-> "", input |-> JEmpty,
     tool_use_id |-> tuid, content |-> content]

\* {"role": role, "content": <str>}
TextMessage(role, text) == [role |-> role, text |-> text, blocks |-> <<>>]

\* {"role": role, "content": <list of blocks>}
BlockMessage(role, blocks) == [role |-> role, text |-> <<>>, blocks |-> blocks]

NoResponse == [stop_reason |-> "none", content |-> <<>>]

\* ------------------------------------------------------------- environment

KnownToolName == "list_genres"
UnknownToolName == "get_weather"
ToolNames == {KnownToolName, UnknownToolName}

\* The answers of the Gateway: a stop reason and the content blocks in order,
\* a tool name standing for a tool_use block of that tool and any other
\* string for a text block of that text.
GatewayAnswers ==
    { <<"end_turn", <<"I found ", "two genres.">> >>,
      <<"end_turn", <<"Let me look.", KnownToolName>> >>,
      <<"max_tokens", <<>> >>,
      <<"tool_use", <<KnownToolName>> >>,
      <<"tool_use", <<"Checking.", UnknownToolName, KnownToolName>> >>,
      <<"tool_use", <<"Hmm.">> >> }

\* The response to Gateway call number n of the run with the given stop
\* reason and blocks: every tool_use block carries an id of its own.
MakeResponse(n, stop, blocks) ==
    [stop_reason |-> stop,
     content |-> [i \in 1..Len(blocks) |->
        IF blocks[i] \in ToolNames
        THEN ToolUseBlock("toolu_" \o Digit[n] \o "_" \o Digit[i], blocks[i], JEmpty)
        ELSE TextBlock(<<blocks[i]>>)]]

\* What a handler returns.
HandlerResults == { JList(<< <<"Fantasy">>, <<"Horror">> >>) }

\* str(e) of what a handler raises, and of what the Gateway raises.
HandlerErrors == { <<"database is locked">> }
GatewayErrors == { <<"Overloaded">> }

\* datetime.now() at a resolution of one second: the clock readings possible
\* at a time when the last reading was t.
ClockReadings(t) == {t} \cup {t2 \in {t + 1} : t2 <= MaxClock}


\* ------------------------------------------------------------------- state

VARIABLES
    \* the conversation store (db.py, CONVERSATION_DB)
    tbl_messages,       \* rows of table messages, in insertion (rowid) order
    tbl_tool_calls,     \* rows of table tool_calls, in insertion order
    sqlite_sequence,    \* the AUTOINCREMENT counters of the tables
    clock,              \* the last reading of datetime.now(), in seconds
    \* one call of generate_full_response
    pc,                 \* where the call is
    user_message,
    conversation_id,
    user_message_id,
    messages,           \* the list named messages (of either function)
    enhanced_messages,  \* the message list of the create_message call in flight
    response,           \* response / current_response
    tool_use,           \* the tool_use block of the round
    result,             \* what the call returned or raised
    \* what an observer of the run sees
    trace,              \* the Gateway and handler calls of the run, in order
    n_calls,            \* Gateway calls of the run so far
    n_tool_use,         \* Gateway responses with stop reason tool_use so far
    n_turns,            \* calls of generate_full_response so far
    \* the front end that made the call
    front_end,          \* "cli" (main.py) or "api" (api.py send_message)
    http_response,      \* the object the endpoint hands to jsonify
    \* the accounts (db.py USER_DB, CONVERSATION_DB; user_manager.py)
    tbl_users,          \* rows of table users, in insertion order
    tbl_conversations,  \* rows of table conversations, in insertion order
    active_sessions,    \* UserManager.active_sessions: token -> (user_id, expiry)
    logged_out,         \* the tokens for which UserManager.logout returned True
    \* the REST request being answered
    http_request,       \* endpoint, session token, path parameter and body
    status_code,        \* the HTTP status of the answer
    n_requests,         \* requests to the REST endpoints so far
    \* requests to send_message that the server handles at the same time
    threads,            \* the locals of the call of every request thread
    \* the customer-service assistant (main.py run_customer_service, Tools.py)
    framework,          \* conversation_history and the locals of process_message
    \* calls of UserManager.register_user that run at the same time
    registering         \* the locals of the call of every caller

store == <<tbl_messages, tbl_tool_calls, sqlite_sequence, clock>>
locals == <<user_message, conversation_id, user_message_id, messages,
            enhanced_messages, response, tool_use, result>>
observed == <<trace, n_calls, n_tool_use, n_turns>>
request == <<front_end, http_response>>
accounts == <<tbl_users, tbl_conversations, active_sessions, logged_out>>
endpoint == <<http_request, status_code, n_requests>>
vars == <<store, pc, locals, observed, request, accounts, endpoint, threads, framework,
          registering>>

NoBlock == TextBlock(<<>>)
NoResult == [kind |-> "none", conversation_id |-> None, full_response |-> <<>>,
             speakable_chunks |-> <<>>, error |-> <<>>]

\* An entry of the trace: a create_message call with its message list, what
\* came back from it, a handler invocation for a tool_use block and how it ended.
Event(ev, block, msgs, resp) ==
    [ev |-> ev, block |-> block, msgs |-> msgs, resp |-> resp,
     tools |-> IF ev = "create_message" THEN TOOLS ELSE <<>>]

NoHttpResponse ==
    [success |-> FALSE, conversation_id |-> None, response |-> <<>>,
     speakable_chunks |-> <<>>, error |-> <<>>, messages |-> <<>>,
     session_token |-> None]

\* A request to an endpoint: the X-Session-Token header, the path parameter
\* and the fields of the JSON body (None for what the request does not carry).
HttpRequest(ep, token, cid, username, password, title, message) ==
    [endpoint |-> ep, session_token |-> token, conversation_id |-> cid,
     username |-> username, password |-> password, title |-> title,
     message |-> message]

NoHttpRequest == HttpRequest("none", None, None, None, None, None, <<>>)

\* ------------------------------------------------------------------- db.py

RECURSIVE InsertByTimestamp_Unstable(_, _)
\* Mutant: a row goes before the rows of its own timestamp.
InsertByTimestamp_Unstable(sorted, row) ==
    IF sorted = <<>> THEN <<row>>
    ELSE IF sorted[Len(sorted)].timestamp < row.timestamp THEN Append(sorted, row)
    ELSE Append(InsertByTimestamp_Unstable(SubSeq(sorted, 1, Len(sorted) - 1), row),
                sorted[Len(sorted)])

RECURSIVE InsertByTimestamp(_, _)
InsertByTimestamp(sorted, row) ==
    IF sorted = <<>> THEN <<row>>
    ELSE IF sorted[Len(sorted)].timestamp <= row.timestamp THEN Append(sorted, row)
    ELSE Append(InsertByTimestamp(SubSeq(sorted, 1, Len(sorted) - 1), row),
                sorted[Len(sorted)])

RECURSIVE OrderByTimestamp(_)
\* ORDER BY timestamp ASC: rows of equal timestamp stay in rowid order
OrderByTimestamp(rows) ==
    IF rows = <<>> THEN <<>>
    ELSE InsertByTimestamp(OrderByTimestamp(SubSeq(rows, 1, Len(rows) - 1)),
                           rows[Len(rows)])

SystemStartMessage ==
    TextMessage("system", <<"This is the start of a new conversation.">>)

\* get_messages_by_conversation_id(cid), on the rows of table messages.
\* WHERE conversation_id = NULL selects no row.
GetMessages(rows, cid) ==
    LET sel == SelectSeq(rows, LAMBDA r : cid # None /\ r.conversation_id = cid)
        ord == OrderByTimestamp(sel)
        msgs == [i \in 1..Len(ord) |-> TextMessage(ord[i].sender, ord[i].content)]
    IN  IF msgs = <<>> THEN <<SystemStartMessage>> ELSE msgs

\* The row add_message(cid, sender, content, user_id) inserts at time t.
MessageRow(id, cid, sender, content, uid, t) ==
    [id |-> id, conversation_id |-> cid, sender |-> sender, content |-> content,
     user_id |-> uid, timestamp |-> t]

\* Mutant: the INSERT of add_message is not committed.
InsertMessage_Lost(rows, row) == rows

\* INSERT INTO messages ... and commit
InsertMessage(rows, row) == Append(rows, row)

\* A row of table users (db.py create_user) and the absent row.
UserRow(id, username, password_hash) ==
    [id |-> id, username |-> username, password_hash |-> password_hash]
NoHash == <<>>
NoUser == UserRow(None, None, NoHash)

\* A row of table conversations (create_conversation) and the absent row;
\* the columns assistant_type, created_at and last_updated are left out.
ConversationRow(id, user_id, title) == [id |-> id, user_id |-> user_id, title |-> title]
NoConversation == ConversationRow(None, None, None)

\* get_user_by_username(username): the first row of that name, or None.
GetUserByUsername(users, username) ==
    LET sel == SelectSeq(users, LAMBDA r : r.username = username)
    IN  IF sel = <<>> THEN NoUser ELSE sel[1]

\* get_conversation(cid)
GetConversation(convs, cid) ==
    LET sel == SelectSeq(convs, LAMBDA r : r.id = cid)
    IN  IF sel = <<>> THEN NoConversation ELSE sel[1]

\* UserManager._hash_password: the SHA-256 digest of the password.
HashPassword(password) == <<"sha256", password>>

\* The row add_tool_call inserts.
ToolCallRow(id, cid, mid, name, parameters, res) ==
    [id |-> id, conversation_id |-> cid, message_id |-> mid, tool_name |-> name,
     parameters |-> parameters, result |-> res]


\* ------------------------------------------------------- context heuristic

\* reference_words
ReferenceWords ==
    << <<"i", "t">>, <<"t", "h", "e", "y">>, <<"t", "h", "a", "t">>,
       <<"t", "h", "i", "s">>, <<"t", "h", "e", " ", "b", "o", "o", "k">>,
       <<"h", "e">>, <<"s", "h", "e">>, <<"w", "h", "e", "n">>,
       <<"w", "h", "e", "r", "e">>, <<"w", "h", "o">> >>

Published == <<"p", "u", "b", "l", "i", "s", "h", "e", "d">>

\* Mutant: every utterance on a history of more than one message is a
\* follow-up.
IsFollowUp_AnyUtterance(full_history, utterance) == Len(full_history) > 1

\* is_follow_up
IsFollowUp(full_history, utterance) ==
    /\ Len(full_history) > 1
    /\ \E i \in 1..Len(ReferenceWords) : Contains(Lower(utterance), ReferenceWords[i])

\* Mutant: the whole history is rendered.
LastFour_All(full_history) == full_history

\* full_history[-4:]
LastFour(full_history) ==
    IF Len(full_history) <= 4 THEN full_history
    ELSE SubSeq(full_history, Len(full_history) - 3, Len(full_history))

\* One line of context_str.
ContextLine(msg) ==
    <<msg.role, ": ">> \o msg.text
        \o (IF Contains(msg.text, Published) THEN <<" (contains book dates)">> ELSE <<>>)

\* context_str
ContextStr(context_messages) ==
    Join(<<"\n">>, [i \in 1..Len(context_messages) |-> ContextLine(context_messages[i])])

\* The content of the synthetic follow-up message.
FollowUpPrompt(context_str, utterance) ==
    <<"Context from previous conversation (most recent first):\n">> \o context_str
        \o <<"\n\nCurrent question: ">> \o utterance
        \o <<"\n\nInstructions:\n1. \"When\" refers to publication dates from the context\n2. Use list_books tool if unsure about dates\n3. Never ask for clarification - use tool if needed">>

\* The context note _maybe_add_tool_prompt puts in front of a history of at
\* most one message (lines 395-411).  No line of generate_full_response or
\* _handle_tool_use calls _maybe_add_tool_prompt.
FirstMessagePrompt(utterance) ==
    TextMessage("user",
        <<"[SYSTEM INSTRUCTION - NOT USER MESSAGE]\nProcess this first message: \"">>
          \o utterance
          \o <<"\"\n\nInstructions:\n1. If this relates to books, authors, or titles, use the list_books tool with title_search or other appropriate tools.\n2. Always search the database before claiming books aren't in the collection.\n3. For Harry Potter related queries, search for \"Harry Potter\" in the book database using list_books with title_search.">>)

\* The message list of the first create_message call.
FirstMessages(full_history, utterance) ==
    IF IsFollowUp(full_history, utterance) /\ Len(full_history) >= 2
    THEN <<TextMessage("user",
              FollowUpPrompt(ContextStr(LastFour(full_history)), utterance))>>
    ELSE <<TextMessage("user", utterance)>>

\* ------------------------------------------------- pieces of a dispatch round

\* Mutant: the last tool_use block of the content is taken.
FirstToolUse_Last(content) ==
    LET uses == SelectSeq(content, LAMBDA b : b.type = "tool_use")
    IN  IF uses = <<>> THEN TextBlock(<<>>) ELSE uses[Len(uses)]

\* next((block for block in content if block.type == "tool_use"), None)
FirstToolUse(content) ==
    LET uses == SelectSeq(content, LAMBDA b : b.type = "tool_use")
    IN  IF uses = <<>> THEN NoBlock ELSE uses[1]

\* Mutant: the loop has no condition but its break.
LoopContinues_Always(resp) == TRUE

\* Mutant: the comparison of the while condition is inverted.
LoopContinues_Inverted(resp) == resp.stop_reason # "tool_use"

\* Mutant: the loop goes on for every response that holds a tool_use block.
LoopContinues_OnToolBlock(resp) ==
    \E k \in 1..Len(resp.content) : resp.content[k].type = "tool_use"

\* the while condition
LoopContinues(resp) == resp.stop_reason = "tool_use"

\* tool_name in TOOL_HANDLERS
IsRegistered(tool_name) == tool_name \in TOOL_HANDLERS

\* the user message carrying the tool_result block
ToolResultMessage(tuid, content) ==
    BlockMessage("user", <<ToolResultBlock(tuid, content)>>)

\* Mutant: the error message leaves out str(e).
ExecutingError_NoMessage(tool_name, e) == <<"Error executing tool ", tool_name>>

\* error_message of the except branch
ExecutingError(tool_name, e) == <<"Error executing tool ", tool_name, ": ">> \o e

\* Mutant: the error message leaves out the tool name.
UnknownToolError_NoName(tool_name) == <<"Unknown tool requested">>

\* error_message of the unknown-tool branch
UnknownToolError(tool_name) == <<"Unknown tool requested: ", tool_name>>

\* json.dumps({"error": error_message})
ErrorPayload(error_message) == JsonDumps(JDict(<<"error">>, error_message))

ToolContextMessage(tool_name, params_json, result_json) ==
    TextMessage("user",
        <<"[CONTEXT: Tool interaction occurred]\nThe assistant used the ", tool_name,
          " tool with parameters: ">> \o params_json \o <<"\nThe tool returned: ">>
          \o result_json
          \o <<"\nPlease continue with your response based on this tool result.">>)

ErrorContextMessage(tool_name, error_message) ==
    TextMessage("user",
        <<"[CONTEXT: Tool error occurred]\nThe assistant tried to use the ", tool_name,
          " tool but it resulted in an error: ">> \o error_message
          \o <<"\nPlease acknowledge this error and continue with an alternative approach if possible.">>)

UnknownContextMessage(tool_name) ==
    TextMessage("user",
        <<"[CONTEXT: Unknown tool error]\nThe assistant tried to use a tool called '",
          tool_name,
          "' but this tool does not exist.\nPlease acknowledge this and continue with an alternative approach using one of the available tools.">>)

\* messages after the round's two appends: the assistant turn, then the result
WithToolResult(msgs, resp, tuid, content) ==
    msgs \o <<BlockMessage("assistant", resp.content), ToolResultMessage(tuid, content)>>

\* ------------------------------------------------------- the final response

RECURSIVE TextOf_Reversed(_)
\* Mutant: every text is put in front of what was gathered.
TextOf_Reversed(content) ==
    IF content = <<>> THEN <<>>
    ELSE (IF content[Len(content)].type = "text"
          THEN content[Len(content)].text ELSE <<>>)
            \o TextOf_Reversed(SubSeq(content, 1, Len(content) - 1))

RECURSIVE TextOf(_)
\* the for loop over response.content: full_response += text_content
TextOf(content) ==
    IF content = <<>> THEN <<>>
    ELSE TextOf(SubSeq(content, 1, Len(content) - 1))
            \o (IF content[Len(content)].type = "text"
                THEN content[Len(content)].text ELSE <<>>)

\* Mutant: the stored text holds the tool_use blocks too, by their names.
HistoryResponse_AllBlocks(content) ==
    Concat([i \in 1..Len(content) |->
               IF content[i].type = "text" THEN content[i].text ELSE <<content[i].name>>])

\* the for loop over response.content: history_response += text_content
HistoryResponse(content) == TextOf(content)

\* Mutant: the whole text is one chunk.
SpeakableChunks_Merged(content) == <<[text |-> TextOf(content), speakable |-> TRUE]>>

\* speakable_chunks
SpeakableChunks(content) ==
    LET texts == SelectSeq(content, LAMBDA b : b.type = "text")
    IN  [i \in 1..Len(texts) |-> [text |-> texts[i].text, speakable |-> TRUE]]


\* -------------------------------------------------------------------- Init

\* The request threads of the server (Flask serves every request in a thread
\* of its own), and the conversation and the user of the request of each.
Threads == {"thread_1", "thread_2"}
ThreadConversation == [w \in Threads |-> IF w = "thread_1" THEN "1" ELSE "2"]
ThreadUser == [w \in Threads |-> IF w = "thread_1" THEN SessionUserId ELSE OtherUserId]
ThreadUtterance ==
    [w \in Threads |-> IF w = "thread_1" THEN <<"H", "i">> ELSE <<"W", "h", "e", "n">>]

\* The locals of send_message, generate_full_response and _handle_tool_use in
\* a request thread, with what the thread has written to the two tables.
IdleThread(w) ==
    [pc |-> "idle", conversation_id |-> ThreadConversation[w],
     user_message |-> <<>>, user_message_id |-> 0, messages |-> <<>>,
     response |-> NoResponse, tool_use |-> NoBlock, n_calls |-> 0, rounds |-> 0,
     wrote |-> <<>>, audited |-> <<>>]

\* The callers of UserManager.register_user that run at the same time (the
\* request threads of POST /api/register), and the locals of a call, with
\* what the calls of the caller have returned so far.
Callers == {"caller_1", "caller_2"}
IdleCaller ==
    [pc |-> "idle", username |-> None, password |-> None, calls |-> 0, returned |-> <<>>]

\* What a call of ToolsFramework.process_message returned or raised.
\* For an exception, the call that raised it comes with it.
FrameworkResult(kind, final_response, conversation, raised_by, error) ==
    [kind |-> kind, final_response |-> final_response, conversation |-> conversation,
     raised_by |-> raised_by, error |-> error]
NoFrameworkResult == FrameworkResult("none", <<>>, <<>>, "", <<>>)

\* run_customer_service before the first input: conversation_history = [],
\* and the locals of process_message, with the history the call was given
\* and the dispatch rounds of the call (response, tool_use id, handler result).
IdleFramework ==
    [pc |-> "input_75", conversation_history |-> <<>>, user_message |-> <<>>,
     given |-> <<>>, messages |-> <<>>, response |-> NoResponse,
     result |-> NoFrameworkResult, rounds |-> <<>>, n_calls |-> 0, inputs |-> 0]

\* The users the deployment has registered.
RegisteredUsers ==
    << UserRow(SessionUserId, "alice", HashPassword(AlicePassword)),
       UserRow(OtherUserId, "bob", NoHash) >>

\* The service is constructed on a store with the registered users, a
\* conversation of each, tables messages and tool_calls holding rows and
\* calls, and the sessions that UserManager._load_sessions read from
\* SESSIONS_FILE.
InitWith(rows, calls, sessions) ==
    /\ tbl_messages = rows
    /\ tbl_tool_calls = calls
    /\ sqlite_sequence = [messages |-> Len(rows), tool_calls |-> Len(calls),
                          conversations |-> 2, users |-> 8]
    /\ tbl_users = RegisteredUsers
    /\ tbl_conversations = << ConversationRow("1", SessionUserId, "books Conversation"),
                              ConversationRow("2", OtherUserId, "books Conversation") >>
    /\ active_sessions = sessions
    /\ logged_out = {}
    /\ http_request = NoHttpRequest
    /\ status_code = 0
    /\ n_requests = 0
    /\ threads = [w \in Threads |-> IdleThread(w)]
    /\ framework = IdleFramework
    /\ registering = [c \in Callers |-> IdleCaller]
    /\ clock = 0
    /\ pc = "idle"
    /\ user_message = <<>>
    /\ conversation_id = None
    /\ user_message_id = 0
    /\ messages = <<>>
    /\ enhanced_messages = <<>>
    /\ response = NoResponse
    /\ tool_use = NoBlock
    /\ result = NoResult
    /\ trace = <<>>
    /\ n_calls = 0
    /\ n_tool_use = 0
    /\ n_turns = 0
    /\ front_end = "none"
    /\ http_response = NoHttpResponse

\* The same, with no session in SESSIONS_FILE.
InitOn(rows, calls) == InitWith(rows, calls, <<>>)

\* The service is constructed on a store without messages.
Init == InitOn(<<>>, <<>>)

\* What earlier requests to send_message said and were answered.
PriorUtterance == <<"H", "i">>
PriorAnswer ==
    <<"T", "h", "e", " ", "H", "o", "b", "b", "i", "t", " ", "w", "a", "s", " ",
      "p", "u", "b", "l", "i", "s", "h", "e", "d", " ", "i", "n", " ",
      "1", "9", "3", "7">>

RECURSIVE StoreAfter(_)
\* Table messages after the requests of turns to send_message for
\* conversation "1", each answered (the user message stored by send_message and
\* by generate_full_response, then the assistant message) or failed at the
\* Gateway (the two user messages only); the rows of one request carry one
\* timestamp, the requests came a second apart and the last in second 0.
StoreAfter(turns) ==
    IF turns = <<>> THEN <<>>
    ELSE LET rows == StoreAfter(SubSeq(turns, 1, Len(turns) - 1))
             n == Len(rows)
             t == Len(turns) - MaxPriorTurns
         IN  rows \o
             << MessageRow(n + 1, "1", "user", PriorUtterance, SessionUserId, t),
                MessageRow(n + 2, "1", "user", PriorUtterance, None, t) >> \o
             (IF turns[Len(turns)] = "answered"
              THEN << MessageRow(n + 3, "1", "assistant", PriorAnswer, None, t) >>
              ELSE <<>>)

PriorStores ==
    { StoreAfter(turns) :
        turns \in UNION { [1..n -> {"answered", "failed"}] : n \in 0..MaxPriorTurns } }

\* The service is constructed on a store that earlier processes wrote.
InitWithHistory == \E rows \in PriorStores : InitOn(rows, <<>>)

\* ----------------------------------------------------------------- actions

\* add_message(cid, sender, content) at clock reading t: one row more in
\* table messages (user_id is None in every call the service makes).
AddMessage(cid, sender, content, t) ==
    /\ tbl_messages' = InsertMessage(tbl_messages,
           MessageRow(sqlite_sequence.messages + 1, cid, sender, content, None, t))
    /\ sqlite_sequence' = [sqlite_sequence EXCEPT !.messages = @ + 1]
    /\ clock' = t

\* Mutant: a call with the arguments of a stored record adds nothing.
AddToolCall_Deduplicated(cid, mid, name, parameters, res) ==
    IF \E k \in 1..Len(tbl_tool_calls) :
           tbl_tool_calls[k] = ToolCallRow(tbl_tool_calls[k].id, cid, mid, name,
                                           parameters, res)
    THEN UNCHANGED <<tbl_tool_calls, sqlite_sequence>>
    ELSE /\ tbl_tool_calls' = Append(tbl_tool_calls,
                ToolCallRow(sqlite_sequence.tool_calls + 1, cid, mid, name, parameters, res))
         /\ sqlite_sequence' = [sqlite_sequence EXCEPT !.tool_calls = @ + 1]

\* add_tool_call(cid, message_id, tool_name, parameters, result)
AddToolCall(cid, mid, name, parameters, res) ==
    /\ tbl_tool_calls' = Append(tbl_tool_calls,
           ToolCallRow(sqlite_sequence.tool_calls + 1, cid, mid, name, parameters, res))
    /\ sqlite_sequence' = [sqlite_sequence EXCEPT !.tool_calls = @ + 1]

\* create_message(msgs, TOOLS) is called: the call is in flight.
CallGateway(msgs) ==
    /\ n_calls < MaxCalls
    /\ enhanced_messages' = msgs
    /\ n_calls' = n_calls + 1
    /\ trace' = Append(trace, Event("create_message", NoBlock, msgs, NoResponse))

\* generate_full_response(u, cid) is called on a store whose table messages
\* holds rows and whose AUTOINCREMENT counters are seqs: lines 104-158, up to
\* the first create_message call, with the add_message of line 105 at clock
\* reading t.
GenerateFullResponse(u, cid, rows, seqs, t) ==
    /\ pc = "idle"
    /\ n_turns < MaxTurns
    /\ tbl_messages' = InsertMessage(rows,
           MessageRow(seqs.messages + 1, cid, "user", u, None, t))
    /\ sqlite_sequence' = [seqs EXCEPT !.messages = @ + 1]
    /\ clock' = t
    /\ user_message' = u
    /\ conversation_id' = cid
    /\ user_message_id' = seqs.messages + 1
    /\ LET full_history == GetMessages(tbl_messages', cid)
       IN  /\ messages' = FirstMessages(full_history, u)
           /\ CallGateway(FirstMessages(full_history, u))
    /\ pc' = "create_message_158"
    /\ n_turns' = n_turns + 1
    /\ http_response' = NoHttpResponse
    /\ UNCHANGED <<tbl_tool_calls, response, tool_use, result, n_tool_use>>

\* main.py run_book_assistant, lines 30-38: the user types u; conversation_id
\* is None in the first turn and what add_message gave back, None, after it.
RunBookAssistant(u) ==
    /\ front_end' = "cli"
    /\ UNCHANGED <<accounts, endpoint, threads, framework, registering>>
    /\ \E t \in ClockReadings(clock) : GenerateFullResponse(u, None, tbl_messages, sqlite_sequence, t)

\* api.py send_message, lines 464-477, when the clock was last read as t0 and
\* the AUTOINCREMENT counters are seqs: add_message for the user of id uid at
\* clock reading t1, then the call of generate_full_response.
AddMessageAndGenerate(u, cid, uid, t0, seqs) ==
    \E t1 \in ClockReadings(t0) : \E t2 \in ClockReadings(t1) :
        GenerateFullResponse(u, cid,
            InsertMessage(tbl_messages,
                MessageRow(seqs.messages + 1, cid, "user", u, uid, t1)),
            [seqs EXCEPT !.messages = @ + 1], t2)

\* api.py send_message, lines 457-477, for a conversation of the session's
\* user: add_message of line 464 at clock reading t1, then the call of
\* generate_full_response.
SendMessage(u, cid) ==
    /\ front_end' = "api"
    /\ UNCHANGED <<accounts, endpoint, threads, framework, registering>>
    /\ AddMessageAndGenerate(u, cid, SessionUserId, clock, sqlite_sequence)

\* The Gateway's answers to the call in flight.
GatewayResponses ==
    { MakeResponse(n_calls, a[1], a[2]) :
        a \in {b \in GatewayAnswers : b[1] = "tool_use" => n_tool_use < MaxRounds} }

Received(resp) ==
    /\ trace' = Append(trace, Event("response", NoBlock, <<>>, resp))
    /\ n_tool_use' = IF resp.stop_reason = "tool_use" THEN n_tool_use + 1 ELSE n_tool_use

\* The first create_message call returns (lines 158-163); on tool_use,
\* _handle_tool_use starts and reads the stored history (lines 188-201).
FirstCallReturns ==
    /\ pc = "create_message_158"
    /\ \E resp \in GatewayResponses :
        /\ response' = resp
        /\ Received(resp)
        /\ IF resp.stop_reason = "tool_use"
           THEN /\ messages' = GetMessages(tbl_messages, conversation_id)
                /\ pc' = "while_203"
           ELSE /\ pc' = "final_165"
                /\ UNCHANGED messages
    /\ UNCHANGED <<request, accounts, endpoint, threads, framework, registering>>
    /\ UNCHANGED <<store, user_message, conversation_id, user_message_id,
                   enhanced_messages, tool_use, result, n_calls, n_turns>>

\* The head of the while loop, lines 203-222 and, for an unknown tool, the
\* else branch up to its create_message call (lines 304-332).
WhileToolUse ==
    /\ pc = "while_203"
    /\ IF ~LoopContinues(response) \/ FirstToolUse(response.content) = NoBlock
       THEN /\ pc' = "final_165"
            /\ UNCHANGED <<tool_use, messages, enhanced_messages, trace, n_calls>>
       ELSE LET tu == FirstToolUse(response.content)
            IN  /\ tool_use' = tu
                /\ IF IsRegistered(tu.name)
                   THEN /\ pc' = "handler_225"
                        /\ trace' = Append(trace, Event("handler", tu, <<>>, NoResponse))
                        /\ UNCHANGED <<messages, enhanced_messages, n_calls>>
                   ELSE LET msgs == WithToolResult(messages, response, tu.id,
                                        ErrorPayload(UnknownToolError(tu.name)))
                        IN  /\ messages' = msgs
                            /\ CallGateway(Append(msgs, UnknownContextMessage(tu.name)))
                            /\ pc' = "create_message_332"
    /\ UNCHANGED <<request, accounts, endpoint, threads, framework, registering>>
    /\ UNCHANGED <<store, user_message, conversation_id, user_message_id,
                   response, result, n_tool_use, n_turns>>

\* The handler returns: lines 225-269, up to the create_message call.
HandlerReturns ==
    /\ pc = "handler_225"
    /\ \E tool_result \in HandlerResults :
        LET tool_params_json == JsonDumps(tool_use.input)
            tool_result_json == JsonDumps(tool_result)
            msgs == WithToolResult(messages, response, tool_use.id, tool_result_json)
        IN  /\ AddToolCall(conversation_id, user_message_id, tool_use.name,
                           tool_params_json, tool_result_json)
            /\ messages' = msgs
            /\ enhanced_messages' =
                   Append(msgs, ToolContextMessage(tool_use.name, tool_params_json,
                                                   tool_result_json))
            /\ n_calls < MaxCalls
            /\ n_calls' = n_calls + 1
            /\ trace' = trace \o
                   << Event("handler_return", tool_use, <<>>, NoResponse),
                      Event("create_message", NoBlock, enhanced_messages', NoResponse) >>
    /\ pc' = "create_message_269"
    /\ UNCHANGED <<request, accounts, endpoint, threads, framework, registering>>
    /\ UNCHANGED <<tbl_messages, clock, user_message, conversation_id, user_message_id,
                   response, tool_use, result, n_tool_use, n_turns>>

\* The except branch, lines 271-302, for the exception message e.
ExceptBranch(e) ==
    LET error_message == ExecutingError(tool_use.name, e)
        msgs == WithToolResult(messages, response, tool_use.id, ErrorPayload(error_message))
    IN  /\ messages' = msgs
        /\ enhanced_messages' = Append(msgs, ErrorContextMessage(tool_use.name, error_message))
        /\ n_calls < MaxCalls
        /\ n_calls' = n_calls + 1
        /\ pc' = "create_message_302"

\* The handler raises: the except branch runs, up to its create_message call.
HandlerRaises ==
    /\ pc = "handler_225"
    /\ \E e \in HandlerErrors :
        /\ ExceptBranch(e)
        /\ trace' = trace \o
               << Event("handler_error", tool_use, <<>>, NoResponse),
                  Event("create_message", NoBlock, enhanced_messages', NoResponse) >>
    /\ UNCHANGED <<request, accounts, endpoint, threads, framework, registering>>
    /\ UNCHANGED <<store, user_message, conversation_id, user_message_id,
                   response, tool_use, result, n_tool_use, n_turns>>

\* A create_message call of the loop returns (lines 269, 302, 332): the loop
\* goes round.
LoopCallReturns ==
    /\ pc \in {"create_message_269", "create_message_302", "create_message_332"}
    /\ \E resp \in GatewayResponses :
        /\ response' = resp
        /\ Received(resp)
    /\ pc' = "while_203"
    /\ UNCHANGED <<request, accounts, endpoint, threads, framework, registering>>
    /\ UNCHANGED <<store, user_message, conversation_id, user_message_id, messages,
                   enhanced_messages, tool_use, result, n_calls, n_turns>>

\* The create_message call of line 269 raises: it is inside the try, so the
\* except branch runs, up to its create_message call.
TryCallRaises ==
    /\ pc = "create_message_269"
    /\ \E e \in GatewayErrors :
        /\ ExceptBranch(e)
        /\ trace' = trace \o
               << Event("gateway_error", NoBlock, <<>>, NoResponse),
                  Event("create_message", NoBlock, enhanced_messages', NoResponse) >>
    /\ UNCHANGED <<request, accounts, endpoint, threads, framework, registering>>
    /\ UNCHANGED <<store, user_message, conversation_id, user_message_id,
                   response, tool_use, result, n_tool_use, n_turns>>

\* A create_message call outside any try raises (lines 158, 302, 332): the
\* exception leaves generate_full_response.
CallRaises ==
    /\ pc \in {"create_message_158", "create_message_302", "create_message_332"}
    /\ \E e \in GatewayErrors :
        result' = [NoResult EXCEPT !.kind = "raised", !.error = e]
    /\ trace' = Append(trace, Event("gateway_error", NoBlock, <<>>, NoResponse))
    /\ pc' = "raised"
    /\ UNCHANGED <<request, accounts, endpoint, threads, framework, registering>>
    /\ UNCHANGED <<store, user_message, conversation_id, user_message_id, messages,
                   enhanced_messages, response, tool_use, n_calls, n_tool_use, n_turns>>

\* Lines 165-184: the final response is assembled, stored and returned.
ProcessFinalResponse ==
    /\ pc = "final_165"
    /\ \E t \in ClockReadings(clock) :
          AddMessage(conversation_id, "assistant", HistoryResponse(response.content), t)
    /\ result' = [kind |-> "returned", conversation_id |-> conversation_id,
                  full_response |-> TextOf(response.content),
                  speakable_chunks |-> SpeakableChunks(response.content),
                  error |-> <<>>]
    /\ pc' = "done"
    /\ UNCHANGED <<request, accounts, endpoint, threads, framework, registering>>
    /\ UNCHANGED <<tbl_tool_calls, user_message, conversation_id, user_message_id,
                   messages, enhanced_messages, response, tool_use, observed>>

\* {"success": True, ...} of send_message, lines 482-487
SuccessResponse(res) ==
    [success |-> TRUE, conversation_id |-> res.conversation_id,
     response |-> res.full_response, speakable_chunks |-> res.speakable_chunks,
     error |-> <<>>, messages |-> <<>>, session_token |-> None]

\* Mutant: the except branch reports success.
FailureResponse_Success(e) ==
    [NoHttpResponse EXCEPT !.success = TRUE,
                           !.error = <<"Error generating response: ">> \o e]

\* {"success": False, "error": ...} of send_message, lines 488-493
FailureResponse(e) ==
    [NoHttpResponse EXCEPT !.error = <<"Error generating response: ">> \o e]

\* api.py send_message, lines 477-495: generate_full_response has returned or
\* raised inside the try; the response object is built and handed to jsonify.
SendMessageResponds ==
    /\ front_end = "api"
    /\ pc \in {"done", "raised"}
    /\ http_response' = IF pc = "done" THEN SuccessResponse(result)
                                       ELSE FailureResponse(result.error)
    /\ status_code' = 200
    /\ pc' = "responded"
    /\ UNCHANGED <<store, locals, observed, front_end, accounts, http_request,
                   n_requests, threads, framework, registering>>

\* The caller has the result (or the exception); the locals are gone.  The
\* CLI prints what it got (main.py lines 39-45) and reads the next line.
Return ==
    /\ \/ front_end = "cli" /\ pc \in {"done", "raised"}
       \/ pc = "responded"
    /\ pc' = "idle"
    /\ front_end' = "none"
    /\ http_response' = NoHttpResponse
    /\ user_message' = <<>>
    /\ conversation_id' = None
    /\ user_message_id' = 0
    /\ messages' = <<>>
    /\ enhanced_messages' = <<>>
    /\ response' = NoResponse
    /\ tool_use' = NoBlock
    /\ result' = NoResult
    /\ trace' = <<>>
    /\ n_calls' = 0
    /\ http_request' = NoHttpRequest
    /\ status_code' = 0
    /\ UNCHANGED <<store, n_tool_use, n_turns, accounts, n_requests, threads, framework, registering>>

\* A step inside a call of generate_full_response, up to its return.
RunStep ==
    \/ FirstCallReturns
    \/ WhileToolUse
    \/ HandlerReturns
    \/ HandlerRaises
    \/ LoopCallReturns
    \/ TryCallRaises
    \/ CallRaises
    \/ ProcessFinalResponse
    \/ SendMessageResponds
    \/ Return

Next ==
    \/ \E u \in Utterances : RunBookAssistant(u)
    \/ \E u \in Utterances, cid \in StoredConversationIds : SendMessage(u, cid)
    \/ RunStep

Spec == Init /\ [][Next]_vars

\* One call of generate_full_response, the first of the process.
NextOneRun ==
    \/ \E u \in Utterances : n_turns = 0 /\ RunBookAssistant(u)
    \/ \E u \in Utterances, cid \in StoredConversationIds :
          n_turns = 0 /\ SendMessage(u, cid)
    \/ RunStep

\* One call of generate_full_response that goes on to its end: the interpreter
\* takes its next step, the Gateway and the handlers return or raise.
FairSpec == Init /\ [][NextOneRun]_vars /\ WF_vars(NextOneRun)

\* One call of generate_full_response on a store with stored conversations.
HistorySpec == InitWithHistory /\ [][NextOneRun]_vars

\* ------------------------------------------------ user_manager.py, api.py

\* The lifetime of a session: 24 hours, in seconds.
SessionLifetime == 86400

\* An entry of UserManager.active_sessions.
Session(user_id, expiry) == [user_id |-> user_id, expiry |-> expiry]

\* UserManager._generate_session_token: 32 random bytes, a token that no
\* earlier request was given.
GenerateSessionToken == "token_" \o Digit[n_requests + 1]

\* The X-Session-Token headers of the requests: none, a token the server never
\* gave, a token of a session, or a token that was logged out.
SessionTokens == {None, "bogus"} \cup DOMAIN active_sessions \cup logged_out

\* UserManager.get_user_from_session(token) at clock reading t: the user row,
\* or None.  The table users is never empty, so no guest user is registered.
GetUserFromSession(token, t) ==
    IF token = None \/ token \notin DOMAIN active_sessions THEN NoUser
    ELSE IF t > active_sessions[token].expiry THEN NoUser
    ELSE LET sel == SelectSeq(tbl_users,
                        LAMBDA r : r.id = active_sessions[token].user_id)
         IN  IF sel = <<>> THEN NoUser
             ELSE GetUserByUsername(tbl_users, sel[1].username)

\* active_sessions after get_user_from_session(token) at clock reading t: an
\* expired session is removed.
SessionsAfterLookup(token, t) ==
    IF /\ token \in DOMAIN active_sessions
       /\ t > active_sessions[token].expiry
    THEN [k \in DOMAIN active_sessions \ {token} |-> active_sessions[k]]
    ELSE active_sessions

\* The outcome of the checks of an endpoint: the status, and the error text of
\* a rejection.
Verdict(status, error) == [status |-> status, error |-> error]
Accepted == Verdict(200, <<>>)

\* The session check every conversation endpoint starts with (api.py lines
\* 346-354, 376-384, 402-410, 434-442), for the user the session gave.
SessionCheck(token, user) ==
    IF token = None THEN Verdict(401, <<"No session token provided">>)
    ELSE IF user = NoUser THEN Verdict(401, <<"Invalid or expired session">>)
    ELSE Accepted

\* Mutant: the owner of the conversation is not compared with the user.
ConversationCheck_AnyUser(user, conv) ==
    IF conv = NoConversation THEN Verdict(404, <<"Conversation not found">>)
    ELSE Accepted

\* The conversation check of the endpoints (lines 356-362, 386-392, 418-424,
\* 449-455): the conversation exists and belongs to the user.
ConversationCheck(user, conv) ==
    IF conv = NoConversation THEN Verdict(404, <<"Conversation not found">>)
    ELSE IF conv.user_id # user.id
         THEN Verdict(403, <<"Unauthorized access to conversation">>)
    ELSE Accepted

\* The first of the verdicts that is a rejection.
FirstRejection(verdicts) ==
    LET rejected == SelectSeq(verdicts, LAMBDA v : v.status # 200)
    IN  IF rejected = <<>> THEN Accepted ELSE rejected[1]

\* {"success": False, "error": e}
ErrorResponse(e) == [NoHttpResponse EXCEPT !.error = e]

\* An endpoint other than send_message answers request req, received when no
\* other request is being handled, with a status and a response object.
Answer(req, status, resp) ==
    /\ pc = "idle"
    /\ n_requests < MaxRequests
    /\ http_request' = req
    /\ status_code' = status
    /\ http_response' = resp
    /\ n_requests' = n_requests + 1
    /\ front_end' = "api"
    /\ pc' = "responded"
    /\ UNCHANGED <<locals, observed, threads, framework, registering>>

\* The session lookup of an endpoint at clock reading t.
LookUpSession(token, t) ==
    /\ active_sessions' = SessionsAfterLookup(token, t)
    /\ UNCHANGED logged_out
    /\ clock' = IF token = None THEN clock ELSE t

\* api.py login with UserManager.authenticate: POST /api/login with the
\* username and the password of the body (None for a field that is missing).
Login(username, password) ==
    LET req == HttpRequest("login", None, None, username, password, None, <<>>)
        user == GetUserByUsername(tbl_users, username)
        rejection ==
            IF username = None THEN Verdict(400, <<"Username is required">>)
            ELSE IF user = NoUser
                 THEN Verdict(401, <<"User '", username, "' not found">>)
            ELSE IF password # None /\ user.password_hash = NoHash
                 THEN Verdict(401, <<"User has no password set">>)
            ELSE IF password # None /\ HashPassword(password) # user.password_hash
                 THEN Verdict(401, <<"Invalid password">>)
            ELSE Accepted
    IN  IF rejection.status # 200
        THEN /\ Answer(req, rejection.status, ErrorResponse(rejection.error))
             /\ UNCHANGED <<store, accounts>>
        ELSE \E t \in ClockReadings(clock) :
                /\ Answer(req, 200, [NoHttpResponse EXCEPT
                                        !.success = TRUE,
                                        !.session_token = GenerateSessionToken])
                /\ active_sessions' = active_sessions @@
                       (GenerateSessionToken :> Session(user.id, t + SessionLifetime))
                /\ clock' = t
                /\ UNCHANGED <<tbl_messages, tbl_tool_calls, sqlite_sequence,
                               tbl_users, tbl_conversations, logged_out>>

\* Mutant: the session of the token stays in active_sessions.
SessionsAfterLogout_Kept(token) == active_sessions

\* active_sessions after UserManager.logout(token)
SessionsAfterLogout(token) ==
    [k \in DOMAIN active_sessions \ {token} |-> active_sessions[k]]

\* api.py logout with UserManager.logout: POST /api/logout
Logout(token) ==
    LET req == HttpRequest("logout", token, None, None, None, None, <<>>)
    IN  IF token = None
        THEN /\ Answer(req, 401, ErrorResponse(<<"No session token provided">>))
             /\ UNCHANGED <<store, accounts>>
        ELSE /\ Answer(req, 200, [NoHttpResponse EXCEPT
                                     !.success = token \in DOMAIN active_sessions])
             /\ active_sessions' = SessionsAfterLogout(token)
             /\ logged_out' = IF token \in DOMAIN active_sessions
                              THEN logged_out \cup {token} ELSE logged_out
             /\ UNCHANGED <<store, tbl_users, tbl_conversations>>

\* api.py get_conversation_details: GET /api/conversations/<cid>
GetConversationDetails(token, cid) ==
    \E t \in ClockReadings(clock) :
        LET req == HttpRequest("get_conversation_details", token, cid, None, None,
                               None, <<>>)
            user == GetUserFromSession(token, t)
            conv == GetConversation(tbl_conversations, cid)
            v == FirstRejection(<< SessionCheck(token, user),
                                   ConversationCheck(user, conv) >>)
        IN  /\ Answer(req, v.status,
                   IF v.status = 200
                   THEN [NoHttpResponse EXCEPT
                            !.success = TRUE, !.conversation_id = cid,
                            !.messages = GetMessages(tbl_messages, cid)]
                   ELSE ErrorResponse(v.error))
            /\ LookUpSession(token, t)
            /\ UNCHANGED <<tbl_messages, tbl_tool_calls, sqlite_sequence,
                           tbl_users, tbl_conversations>>

\* Mutant: the tool calls of the conversation are left in their table.
DeleteConversation_KeepsToolCalls(cid) ==
    /\ tbl_tool_calls' = tbl_tool_calls
    /\ tbl_messages' = SelectSeq(tbl_messages, LAMBDA r : r.conversation_id # cid)
    /\ tbl_conversations' = SelectSeq(tbl_conversations, LAMBDA r : r.id # cid)

\* What delete_conversation(cid) returns: whether its last DELETE, that of the
\* row of the conversation, removed a row (cursor.rowcount > 0).
DeleteConversationReturns(cid) ==
    SelectSeq(tbl_conversations, LAMBDA r : r.id = cid) # <<>>

\* db.py delete_conversation(cid): the tool calls, the messages and the row of
\* the conversation are deleted.
DeleteConversation(cid) ==
    /\ tbl_tool_calls' = SelectSeq(tbl_tool_calls, LAMBDA r : r.conversation_id # cid)
    /\ tbl_messages' = SelectSeq(tbl_messages, LAMBDA r : r.conversation_id # cid)
    /\ tbl_conversations' = SelectSeq(tbl_conversations, LAMBDA r : r.id # cid)

\* api.py delete_conversation_endpoint: DELETE /api/conversations/<cid>
DeleteConversationEndpoint(token, cid) ==
    \E t \in ClockReadings(clock) :
        LET req == HttpRequest("delete_conversation", token, cid, None, None,
                               None, <<>>)
            user == GetUserFromSession(token, t)
            conv == GetConversation(tbl_conversations, cid)
            v == FirstRejection(<< SessionCheck(token, user),
                                   ConversationCheck(user, conv) >>)
        IN  /\ LookUpSession(token, t)
            /\ IF v.status = 200
               THEN /\ Answer(req, 200, [NoHttpResponse EXCEPT
                                             !.success = DeleteConversationReturns(cid)])
                    /\ DeleteConversation(cid)
                    /\ UNCHANGED <<sqlite_sequence, tbl_users>>
               ELSE /\ Answer(req, v.status, ErrorResponse(v.error))
                    /\ UNCHANGED <<tbl_messages, tbl_tool_calls, sqlite_sequence,
                                   tbl_users, tbl_conversations>>

\* db.py update_conversation_title(cid, title)
UpdateConversationTitle(cid, title) ==
    tbl_conversations' =
        [i \in 1..Len(tbl_conversations) |->
            IF tbl_conversations[i].id = cid
            THEN [tbl_conversations[i] EXCEPT !.title = title]
            ELSE tbl_conversations[i]]

\* api.py update_conversation_title_endpoint:
\* PUT /api/conversations/<cid>/title with the title of the body.
UpdateConversationTitleEndpoint(token, cid, title) ==
    \E t \in ClockReadings(clock) :
        LET req == HttpRequest("update_conversation_title", token, cid, None, None,
                               title, <<>>)
            user == GetUserFromSession(token, t)
            conv == GetConversation(tbl_conversations, cid)
            v == FirstRejection(<< SessionCheck(token, user),
                                   IF title = None
                                   THEN Verdict(400, <<"Title is required">>)
                                   ELSE Accepted,
                                   ConversationCheck(user, conv) >>)
        IN  /\ LookUpSession(token, t)
            /\ IF v.status = 200
               THEN /\ Answer(req, 200, [NoHttpResponse EXCEPT !.success = TRUE])
                    /\ UpdateConversationTitle(cid, title)
                    /\ UNCHANGED <<tbl_messages, tbl_tool_calls, sqlite_sequence,
                                   tbl_users>>
               ELSE /\ Answer(req, v.status, ErrorResponse(v.error))
                    /\ UNCHANGED <<tbl_messages, tbl_tool_calls, sqlite_sequence,
                                   tbl_users, tbl_conversations>>

\* db.py create_conversation(user_id, "books") at clock reading t: the row
\* it inserts, with the title it makes up.
CreatedConversation(user_id, t) ==
    ConversationRow(Digit[sqlite_sequence.conversations + 1], user_id,
                    "books Conversation - " \o ToString(t))

\* api.py send_message: POST /api/conversations/<cid>/messages with the
\* message of the body (empty when missing).  Lines 433-461: the session
\* check, then create_conversation for the cid 'new' and the conversation
\* check for any other, then the check of the message; then lines 464-477.
SendMessageEndpoint(token, cid, message) ==
    \E t \in ClockReadings(clock) :
        LET req == HttpRequest("send_message", token, cid, None, None, None, message)
            user == GetUserFromSession(token, t)
            conv == GetConversation(tbl_conversations, cid)
            session == SessionCheck(token, user)
            creates == session.status = 200 /\ cid = "new"
            v == FirstRejection(<< session,
                                   IF cid = "new" THEN Accepted
                                   ELSE ConversationCheck(user, conv),
                                   IF message = <<>>
                                   THEN Verdict(400, <<"Message is required">>)
                                   ELSE Accepted >>)
            seqs == IF creates
                    THEN [sqlite_sequence EXCEPT !.conversations = @ + 1]
                    ELSE sqlite_sequence
        IN  /\ tbl_conversations' =
                  IF creates
                  THEN Append(tbl_conversations, CreatedConversation(user.id, t))
                  ELSE tbl_conversations
            /\ IF v.status = 200
               THEN /\ n_requests < MaxRequests
                    /\ AddMessageAndGenerate(message,
                           IF creates THEN CreatedConversation(user.id, t).id ELSE cid,
                           user.id, t, seqs)
                    /\ http_request' = req
                    /\ status_code' = 0
                    /\ n_requests' = n_requests + 1
                    /\ front_end' = "api"
                    /\ active_sessions' = SessionsAfterLookup(token, t)
                    /\ UNCHANGED <<tbl_users, logged_out, threads, framework, registering>>
               ELSE /\ Answer(req, v.status, ErrorResponse(v.error))
                    /\ LookUpSession(token, t)
                    /\ sqlite_sequence' = seqs
                    /\ UNCHANGED <<tbl_messages, tbl_tool_calls, tbl_users>>

\* Tables messages and tool_calls after an earlier request to send_message
\* for conversation "1" and one for conversation "2", each answered after one
\* call of a tool.
AuditedMessages ==
    StoreAfter(<<"answered">>) \o
    << MessageRow(4, "2", "user", <<"W", "h", "e", "n">>, OtherUserId, 0),
       MessageRow(5, "2", "user", <<"W", "h", "e", "n">>, None, 0),
       MessageRow(6, "2", "assistant", PriorAnswer, None, 0) >>
AuditedToolCalls ==
    << ToolCallRow(1, "1", 2, KnownToolName, JsonDumps(JEmpty),
                   JsonDumps(JList(<< <<"Fantasy">>, <<"Horror">> >>))),
       ToolCallRow(2, "2", 5, KnownToolName, JsonDumps(JEmpty),
                   JsonDumps(JList(<< <<"Fantasy">>, <<"Horror">> >>))) >>

\* The sessions an earlier process left in SESSIONS_FILE: one of alice, one
\* of bob, and one of alice that expired before the server started.
LoadedSessions ==
    ("token_a" :> Session(SessionUserId, SessionLifetime)) @@
    ("token_b" :> Session(OtherUserId, SessionLifetime)) @@
    ("token_x" :> Session(SessionUserId, 0 - 1))

\* The server starts on the store an earlier process left, without sessions.
InitApi == InitOn(AuditedMessages, AuditedToolCalls)

\* The server starts on the store and the sessions an earlier process left.
InitSessions == InitWith(AuditedMessages, AuditedToolCalls, LoadedSessions)

\* The requests to the REST endpoints, one at a time, with one of them
\* reaching generate_full_response.
NextApi ==
    \/ \E username \in Usernames, password \in Passwords : Login(username, password)
    \/ \E token \in SessionTokens : Logout(token)
    \/ \E token \in SessionTokens, cid \in RequestedConversationIds :
          GetConversationDetails(token, cid)
    \/ \E token \in SessionTokens, cid \in RequestedConversationIds :
          DeleteConversationEndpoint(token, cid)
    \/ \E token \in SessionTokens, cid \in RequestedConversationIds, title \in Titles :
          UpdateConversationTitleEndpoint(token, cid, title)
    \/ \E token \in SessionTokens, cid \in RequestedConversationIds \cup {"new"},
          message \in RequestedMessages :
          n_turns = 0 /\ SendMessageEndpoint(token, cid, message)
    \/ RunStep

ApiSpec == InitApi /\ [][NextApi]_vars

\* The requests that create, end and look up sessions, one at a time.
NextSessions ==
    \/ \E username \in Usernames, password \in Passwords : Login(username, password)
    \/ \E token \in SessionTokens : Logout(token)
    \/ \E token \in SessionTokens, cid \in RequestedConversationIds :
          GetConversationDetails(token, cid)
    \/ Return

SessionSpec == InitSessions /\ [][NextSessions]_vars
\* ------------------------------------------ requests handled concurrently

\* Every call of db.py opens a connection of its own and commits before it
\* returns: a call is one transaction, and the steps of a request thread are
\* the transactions, the Gateway calls and the handler calls it makes.

\* What the Gateway answers a request thread.
ThreadGatewayAnswers ==
    { <<"end_turn", <<"I found ", "two genres.">> >>,
      <<"tool_use", <<KnownToolName>> >>,
      <<"tool_use", <<UnknownToolName>> >> }

ThreadGatewayResponses(w) ==
    { MakeResponse(threads[w].n_calls, a[1], a[2]) :
        a \in {b \in ThreadGatewayAnswers :
                 b[1] = "tool_use" => threads[w].rounds < MaxThreadRounds} }

\* Mutant: the conversation id is an attribute of the service object, which
\* the call that came last has set.
ThreadConversationId_Shared(w) ==
    LET later == {v \in Threads : threads[v].user_message_id > threads[w].user_message_id}
    IN  IF later = {} THEN threads[w].conversation_id
        ELSE threads[CHOOSE v \in later : \A x \in later :
                        threads[x].user_message_id <= threads[v].user_message_id
                    ].conversation_id

\* conversation_id, the parameter and local of generate_full_response and
\* _handle_tool_use in thread w.
ThreadConversationId(w) == threads[w].conversation_id

\* What a row of table messages and a row of table tool_calls say, without
\* their ids.
WrittenMessage(row) == <<row.sender, row.content, row.user_id>>
WrittenToolCall(row) == <<row.message_id, row.tool_name, row.parameters, row.result>>

\* Thread w goes to position p with the changes ch of its locals; the locals
\* of other calls, the accounts and the sessions stay as they are.
ThreadStep(w, p, ch) ==
    /\ threads' = [threads EXCEPT ![w] = [f \in DOMAIN threads[w] |->
                      IF f = "pc" THEN p
                      ELSE IF f \in DOMAIN ch THEN ch[f] ELSE threads[w][f]]]
    /\ UNCHANGED <<pc, locals, observed, request, accounts, endpoint, framework,
                   registering>>

\* add_message(cid, "user", message, uid) in thread w
ThreadInsertMessage(w, cid, sender, content, uid, t, p, ch) ==
    LET row == MessageRow(sqlite_sequence.messages + 1, cid, sender, content, uid, t)
    IN  /\ tbl_messages' = InsertMessage(tbl_messages, row)
        /\ sqlite_sequence' = [sqlite_sequence EXCEPT !.messages = @ + 1]
        /\ clock' = t
        /\ ThreadStep(w, p, ch @@ [wrote |-> Append(threads[w].wrote, WrittenMessage(row))])
        /\ UNCHANGED tbl_tool_calls

\* api.py send_message, line 464, for a request that passed the checks.
ThreadSendMessage(w) ==
    /\ threads[w].pc = "idle"
    /\ \E t \in ClockReadings(clock) :
          ThreadInsertMessage(w, ThreadConversation[w], "user", ThreadUtterance[w],
                              ThreadUser[w], t, "add_message_105",
                              [user_message |-> ThreadUtterance[w]])

\* generate_full_response, line 105
ThreadAddMessage(w) ==
    /\ threads[w].pc = "add_message_105"
    /\ \E t \in ClockReadings(clock) :
          ThreadInsertMessage(w, ThreadConversationId(w), "user", threads[w].user_message,
                              None, t, "get_messages_114",
                              [user_message_id |-> sqlite_sequence.messages + 1])

\* generate_full_response, lines 114-158: the history is read, the first
\* create_message call is made.
ThreadGetMessages(w) ==
    /\ threads[w].pc = "get_messages_114"
    /\ ThreadStep(w, "create_message_158",
           [messages |-> FirstMessages(GetMessages(tbl_messages, ThreadConversationId(w)),
                                       threads[w].user_message),
            n_calls |-> threads[w].n_calls + 1])
    /\ UNCHANGED store

\* A create_message call of thread w returns: the first (lines 158-163, then
\* the read of the stored history in _handle_tool_use, lines 188-201) or one
\* of the loop.
ThreadCallReturns(w) ==
    /\ threads[w].pc \in {"create_message_158", "create_message_loop"}
    /\ \E resp \in ThreadGatewayResponses(w) :
          LET rounds == IF resp.stop_reason = "tool_use"
                        THEN threads[w].rounds + 1 ELSE threads[w].rounds
          IN  IF threads[w].pc = "create_message_loop"
              THEN ThreadStep(w, "while_203", [response |-> resp, rounds |-> rounds])
              ELSE IF resp.stop_reason = "tool_use"
              THEN ThreadStep(w, "while_203",
                       [response |-> resp, rounds |-> rounds,
                        messages |-> GetMessages(tbl_messages, ThreadConversationId(w))])
              ELSE ThreadStep(w, "final_165", [response |-> resp, rounds |-> rounds])
    /\ UNCHANGED store

\* The head of the while loop in thread w (lines 203-222, and lines 304-332
\* for an unknown tool).
ThreadWhileToolUse(w) ==
    /\ threads[w].pc = "while_203"
    /\ LET resp == threads[w].response
           tu == FirstToolUse(resp.content)
       IN  IF ~LoopContinues(resp) \/ tu = NoBlock
           THEN ThreadStep(w, "final_165", <<>>)
           ELSE IF IsRegistered(tu.name)
           THEN ThreadStep(w, "handler_225", [tool_use |-> tu])
           ELSE ThreadStep(w, "create_message_loop",
                    [tool_use |-> tu,
                     messages |-> WithToolResult(threads[w].messages, resp, tu.id,
                                      ErrorPayload(UnknownToolError(tu.name))),
                     n_calls |-> threads[w].n_calls + 1])
    /\ UNCHANGED store

\* The handler returns in thread w (lines 225-269): add_tool_call, then the
\* create_message call.
ThreadHandlerReturns(w) ==
    /\ threads[w].pc = "handler_225"
    /\ \E tool_result \in HandlerResults :
          LET tu == threads[w].tool_use
              row == ToolCallRow(sqlite_sequence.tool_calls + 1, ThreadConversationId(w),
                                 threads[w].user_message_id, tu.name,
                                 JsonDumps(tu.input), JsonDumps(tool_result))
          IN  /\ AddToolCall(row.conversation_id, row.message_id, row.tool_name,
                             row.parameters, row.result)
              /\ ThreadStep(w, "create_message_loop",
                     [messages |-> WithToolResult(threads[w].messages, threads[w].response,
                                                  tu.id, row.result),
                      n_calls |-> threads[w].n_calls + 1,
                      audited |-> Append(threads[w].audited, WrittenToolCall(row))])
    /\ UNCHANGED <<tbl_messages, clock>>

\* The handler raises in thread w (lines 271-302).
ThreadHandlerRaises(w) ==
    /\ threads[w].pc = "handler_225"
    /\ \E e \in HandlerErrors :
          LET tu == threads[w].tool_use
          IN  ThreadStep(w, "create_message_loop",
                  [messages |-> WithToolResult(threads[w].messages, threads[w].response,
                                    tu.id, ErrorPayload(ExecutingError(tu.name, e))),
                   n_calls |-> threads[w].n_calls + 1])
    /\ UNCHANGED store

\* A create_message call of thread w raises: the request is answered with the
\* error (api.py lines 488-493).
ThreadCallRaises(w) ==
    /\ threads[w].pc \in {"create_message_158", "create_message_loop"}
    /\ ThreadStep(w, "raised", <<>>)
    /\ UNCHANGED store

\* Lines 165-184 in thread w: the assistant message is stored.
ThreadProcessFinalResponse(w) ==
    /\ threads[w].pc = "final_165"
    /\ \E t \in ClockReadings(clock) :
          ThreadInsertMessage(w, ThreadConversationId(w), "assistant",
                              HistoryResponse(threads[w].response.content), None, t,
                              "done", <<>>)

\* The requests of the threads, their steps interleaved in any order.
NextConcurrent ==
    \/ \E w \in Threads : ThreadSendMessage(w)
    \/ \E w \in Threads : ThreadAddMessage(w)
    \/ \E w \in Threads : ThreadGetMessages(w)
    \/ \E w \in Threads : ThreadCallReturns(w)
    \/ \E w \in Threads : ThreadWhileToolUse(w)
    \/ \E w \in Threads : ThreadHandlerReturns(w)
    \/ \E w \in Threads : ThreadHandlerRaises(w)
    \/ \E w \in Threads : ThreadCallRaises(w)
    \/ \E w \in Threads : ThreadProcessFinalResponse(w)

ConcurrentSpec == Init /\ [][NextConcurrent]_vars

\* ------------------------------------------------------ what a run shows

\* The positions of the trace holding a Gateway response.
ResponseAt == {i \in 1..Len(trace) : trace[i].ev = "response"}

\* The positions of the trace holding a create_message call.
CallAt == {i \in 1..Len(trace) : trace[i].ev = "create_message"}

Max(S) == CHOOSE x \in S : \A y \in S : y <= x
Min(S) == CHOOSE x \in S : \A y \in S : x <= y

\* The last response the run received.
LastResponse == trace[Max(ResponseAt)].resp

ToolUsesIn(resp) == {i \in 1..Len(resp.content) : resp.content[i].type = "tool_use"}

\* A response that asks for a dispatch round, and the ToolUse the round is for.
AsksForTool(resp) == resp.stop_reason = "tool_use" /\ ToolUsesIn(resp) # {}
ToolUseOf(resp) == resp.content[Min(ToolUsesIn(resp))]

\* The tool_result blocks of a message list that answer the tool_use of id tuid.
ToolResultsFor(msgs, tuid) ==
    UNION { { <<i, j>> : j \in { k \in 1..Len(msgs[i].blocks) :
                                   /\ msgs[i].blocks[k].type = "tool_result"
                                   /\ msgs[i].blocks[k].tool_use_id = tuid } } :
            i \in 1..Len(msgs) }

\* The content of the tool_result blocks of msgs that answer tuid.
ResultContentsFor(msgs, tuid) ==
    { msgs[p[1]].blocks[p[2]].content : p \in ToolResultsFor(msgs, tuid) }

\* A tool_result content that is an error payload.
IsErrorPayload(content) == Contains(content, <<"{", "\"", "error", "\"", ": ">>)

\* The dispatch rounds of the run: the responses the loop went on from.
RoundAt == {i \in ResponseAt : AsksForTool(trace[i].resp) /\ i < Len(trace)}

\* The rounds whose follow-up create_message call has been made.
RoundDoneAt == {i \in RoundAt : \E j \in CallAt : j > i}

GatewayFailed == \E i \in 1..Len(trace) : trace[i].ev = "gateway_error"

\* ------------------------------------------------------------------ claims

\* C1: in every dispatch round the message list of _handle_tool_use gains
\* exactly one tool_result block for the ToolUse of the round, carrying its
\* id, whatever the outcome of the round (handler success, handler exception,
\* unknown tool, failure of the follow-up Gateway call).
C1_OneToolResultPerRound ==
    \A i \in RoundDoneAt :
        Cardinality(ToolResultsFor(messages, ToolUseOf(trace[i].resp).id)) = 1

\* C2: every ToolUse block of every response of the run, the second and later
\* blocks of a response included, is answered by exactly one ToolResult in
\* the message list of the next Gateway call.
C2_EveryToolUseAnswered ==
    \A j \in CallAt : \A i \in ResponseAt :
        i < j =>
            \A k \in ToolUsesIn(trace[i].resp) :
                Cardinality(ToolResultsFor(trace[j].msgs,
                                           trace[i].resp.content[k].id)) = 1

\* C3: when the Gateway answers every call and its responses with stop reason
\* tool_use are finitely many, and the handlers return or raise, a run that
\* has made its first Gateway call reaches Done and returns a result.
C3_Terminates ==
    (pc = "create_message_158")
        ~> ((pc = "done" /\ result.kind = "returned") \/ GatewayFailed)

\* C3 witness: a run ended in Done after two rounds, one of them with a
\* handler that raised, and no Gateway failure.
C3_Witness ==
    /\ pc = "done"
    /\ result.kind = "returned"
    /\ ~GatewayFailed
    /\ Cardinality(RoundAt) >= 2
    /\ \E i \in 1..Len(trace) : trace[i].ev = "handler_error"

\* The texts of the text blocks of a response, in block order, joined.
TextBlocksJoined(resp) ==
    LET texts == SelectSeq(resp.content, LAMBDA b : b.type = "text")
    IN  Concat([i \in 1..Len(texts) |-> texts[i].text])

\* C4: when generate_full_response returns, full_response is the texts of the
\* text blocks of the last response of the run, joined in block order, and
\* nothing else.
C4_FullResponseIsLastText ==
    pc = "done" => result.full_response = TextBlocksJoined(LastResponse)

\* C4 witness: a run returned after a round whose response had a text block,
\* and the last response has two text blocks.
C4_Witness ==
    /\ pc = "done"
    /\ \E i \in RoundAt : \E k \in 1..Len(trace[i].resp.content) :
           trace[i].resp.content[k].type = "text"
    /\ Len(SelectSeq(LastResponse.content, LAMBDA b : b.type = "text")) = 2
    /\ result.full_response # <<>>

\* C5 as stated: a run never reaches Done while the stop reason of the last
\* response is tool_use.
C5_DoneOnlyOnOtherStopReason ==
    pc = "done" => LastResponse.stop_reason # "tool_use"

\* C5 as amended: a run never reaches Done while the last response has stop
\* reason tool_use and holds a ToolUse block.
C5_DoneOnlyWithoutToolRequest ==
    pc = "done" => ~AsksForTool(LastResponse)

\* C5 witness: a run reached Done after a dispatch round.
C5_Witness ==
    /\ pc = "done"
    /\ RoundAt # {}
    /\ LastResponse.stop_reason # "tool_use"

\* C6: the dispatch rounds of a run stay below a maximum of the loop's own:
\* the loop stops before the Gateway stops asking for tools.
C6_RoundsBounded == Cardinality(RoundAt) < MaxRounds

\* C7: a ToolUse naming a tool that is not in TOOL_HANDLERS raises nothing and
\* calls no handler: the next thing the run does is a Gateway call whose
\* message list answers that ToolUse with an error payload naming the tool.
C7_UnknownToolRecovered ==
    /\ \A i \in ResponseAt :
        (AsksForTool(trace[i].resp) /\ ToolUseOf(trace[i].resp).name \notin TOOL_HANDLERS)
        => IF i = Len(trace)
           THEN pc = "while_203"
           ELSE /\ trace[i + 1].ev = "create_message"
                /\ \E c \in ResultContentsFor(trace[i + 1].msgs, ToolUseOf(trace[i].resp).id) :
                      /\ IsErrorPayload(c)
                      /\ Contains(c, <<ToolUseOf(trace[i].resp).name>>)
    /\ pc = "raised" => trace[Len(trace)].ev = "gateway_error"

\* C7 witness: the Gateway call of the unknown-tool branch is in flight.
C7_Witness ==
    /\ pc = "create_message_332"
    /\ tool_use.name = UnknownToolName
    /\ trace[Len(trace)].ev = "create_message"

\* C8: when a registered handler raises, the exception stays in the loop: the
\* next thing the run does is a Gateway call whose message list answers the
\* ToolUse with an error payload holding the exception message.
C8_HandlerErrorRecovered ==
    \A i \in 1..Len(trace) :
        trace[i].ev = "handler_error"
        => /\ i < Len(trace)
           /\ trace[i + 1].ev = "create_message"
           /\ pc = "raised" => trace[Len(trace)].ev = "gateway_error"
           /\ \E c \in ResultContentsFor(trace[i + 1].msgs, trace[i].block.id) :
                 /\ IsErrorPayload(c)
                 /\ \E e \in HandlerErrors : Contains(c, e)

\* C8 witness: a run in which a handler raised ended in Done with the
\* assistant message stored.
C8_Witness ==
    /\ pc = "done"
    /\ \E i \in 1..Len(trace) : trace[i].ev = "handler_error"
    /\ tbl_messages[Len(tbl_messages)].sender = "assistant"

\* C9: every handler invocation that has ended, by a return or by an
\* exception, has left a record in tool_calls.
C9_EveryInvocationAudited ==
    pc # "idle" =>
        Cardinality({k \in 1..Len(tbl_tool_calls) :
                        tbl_tool_calls[k].message_id = user_message_id})
        = Cardinality({i \in 1..Len(trace) :
                        trace[i].ev \in {"handler_return", "handler_error"}})

\* C10: a Gateway call that raised is the last thing the run did: no Gateway
\* call follows it and the exception leaves generate_full_response.
C10_GatewayFailureNotRetried ==
    \A i \in 1..Len(trace) :
        trace[i].ev = "gateway_error" => (i = Len(trace) /\ pc = "raised")

\* The rows of table messages holding the conversation of the run when its
\* user message had been stored, oldest first, as messages.
StoredHistory ==
    LET sel == SelectSeq(tbl_messages,
                   LAMBDA r : /\ conversation_id # None
                              /\ r.conversation_id = conversation_id
                              /\ r.id <= user_message_id)
    IN  [i \in 1..Len(sel) |-> TextMessage(sel[i].sender, sel[i].content)]

\* C11: every message list the run sends to the Gateway holds the stored
\* messages of the conversation, all of them and in their order, with at most
\* one message in front of them.
C11_HistorySentInOrder ==
    \A j \in CallAt :
        \E k \in {0, 1} :
            /\ Len(trace[j].msgs) >= k + Len(StoredHistory)
            /\ SubSeq(trace[j].msgs, k + 1, k + Len(StoredHistory)) = StoredHistory

\* any(word in lower_message for word in reference_words), for the utterance
\* of the run
HasReferenceWord ==
    \E i \in 1..Len(ReferenceWords) : Contains(Lower(user_message), ReferenceWords[i])

\* C12: when the utterance holds no referential keyword and the conversation
\* holds at least 2 stored messages, the first Gateway call of the run is made
\* with one user message whose content is the raw utterance.
C12_NoKeywordSendsRawUtterance ==
    (CallAt # {} /\ ~HasReferenceWord /\ Len(StoredHistory) >= 2)
        => trace[1].msgs = <<TextMessage("user", user_message)>>

\* C12 witness: the first Gateway call of a run is in flight for an utterance
\* without keyword on a conversation of two stored messages.
C12_Witness ==
    /\ pc = "create_message_158"
    /\ ~HasReferenceWord
    /\ Len(StoredHistory) >= 2
    /\ trace[1].ev = "create_message"

\* The last n messages of the stored history.
LastOfHistory(n) ==
    SubSeq(StoredHistory, Max({1, Len(StoredHistory) - n + 1}), Len(StoredHistory))

\* The messages as "role: content" lines.
RoleContentLines(msgs) == [i \in 1..Len(msgs) |-> <<msgs[i].role, ": ">> \o msgs[i].text]

RECURSIVE OccursInOrder(_, _)
\* The parts occur in the text one after the other, in their order.
OccursInOrder(text, parts) ==
    IF parts = <<>> THEN TRUE
    ELSE \E i \in 1..(Len(text) - Len(Head(parts)) + 1) :
            /\ SubSeq(text, i, i + Len(Head(parts)) - 1) = Head(parts)
            /\ OccursInOrder(SubSeq(text, i + Len(Head(parts)), Len(text)), Tail(parts))

PriorMessages ==
    SelectSeq(tbl_messages,
        LAMBDA r : /\ r.conversation_id = conversation_id
                   /\ r.id < user_message_id - (IF front_end = "api" THEN 1 ELSE 0))

\* The message list is the follow-up context message.
IsContextMessage(msgs) ==
    /\ Len(msgs) = 1
    /\ Contains(msgs[1].text, <<"Context from previous conversation (most recent first):\n">>)

\* C14: the first Gateway call carries the follow-up context message only when
\* the utterance holds a referential keyword and the conversation held at
\* least 2 messages before the utterance; the first utterance of a
\* conversation is never wrapped.
C14_ContextOnlyWithPriorHistory ==
    (CallAt # {} /\ IsContextMessage(trace[1].msgs))
        => (HasReferenceWord /\ Len(PriorMessages) >= 2)

\* C15: when the conversation held fewer than 2 messages before the
\* utterance, the message list of the first Gateway call starts with the
\* "first message" instruction.
C15_FirstMessageInstructionSent ==
    (CallAt # {} /\ Len(PriorMessages) < 2)
        => /\ trace[1].msgs # <<>>
           /\ trace[1].msgs[1] = FirstMessagePrompt(user_message)

\* C16: a run for a conversation id that resolves to no stored message (the
\* id is None, or names no stored conversation) makes no Gateway call.
C16_UnresolvableRejected ==
    (pc # "idle" /\ StoredHistory = <<>>) => CallAt = {}

\* The rows of table messages stored after the user message of the run.
RowsAfterUserMessage == SelectSeq(tbl_messages, LAMBDA r : r.id > user_message_id)

\* C17: a run that reached Done has stored, after its user message, one row
\* and no more: an assistant message of the conversation whose content is the
\* returned full_response; before Done it has stored nothing after the user
\* message, so no content block, tool_result or context message is in the log.
C17_OnlyAssistantTextPersisted ==
    /\ (pc \in {"done", "responded"} /\ result.kind = "returned")
        => /\ Len(RowsAfterUserMessage) = 1
           /\ RowsAfterUserMessage[1].sender = "assistant"
           /\ RowsAfterUserMessage[1].conversation_id = conversation_id
           /\ RowsAfterUserMessage[1].content = result.full_response
    /\ (pc \notin {"idle", "done", "responded"}) => RowsAfterUserMessage = <<>>

\* C17 witness: a run reached Done after a dispatch round whose tool_result
\* and context message went to the Gateway, on a last response that holds a
\* tool_use block beside its text.
C17_Witness ==
    /\ pc = "done"
    /\ RoundDoneAt # {}
    /\ ToolUsesIn(LastResponse) # {}
    /\ result.full_response # <<>>
    /\ \E i \in 1..Len(messages) : messages[i].blocks # <<>>

\* C18: when generate_full_response raises inside send_message, the next step
\* of the request is the return of the object {success: false, error: ...}
\* holding the message of the exception.
C18_FailureReturnsStructuredError ==
    [][(pc = "raised" /\ front_end = "api")
        => /\ pc' = "responded"
           /\ http_response'.success = FALSE
           /\ result.error # <<>>
           /\ Contains(http_response'.error, result.error)]_vars

\* C18 witness: send_message has answered a request whose reply generation
\* failed at the Gateway after a dispatch round.
C18_Witness ==
    /\ pc = "responded"
    /\ front_end = "api"
    /\ GatewayFailed
    /\ RoundDoneAt # {}
    /\ http_response.success = FALSE

\* C19: when reply generation has failed, the user message of the turn is in
\* the message log as it was stored and no row was stored after it.
C19_UserMessageKeptOnFailure ==
    (pc \in {"raised", "responded"} /\ result.kind = "raised")
        => /\ \E i \in 1..Len(tbl_messages) :
                /\ tbl_messages[i].id = user_message_id
                /\ tbl_messages[i].sender = "user"
                /\ tbl_messages[i].content = user_message
                /\ tbl_messages[i].conversation_id = conversation_id
           /\ RowsAfterUserMessage = <<>>

\* C19 witness: reply generation failed at the Gateway after a handler had
\* run, for a request of the REST front end and for a line of the CLI.
C19_Witness ==
    /\ pc \in {"raised", "responded"}
    /\ result.kind = "raised"
    /\ \E i \in 1..Len(trace) : trace[i].ev = "handler_return"
    /\ tbl_tool_calls # <<>>

\* The first and the second create_message call of the run.
FirstCall == Min(CallAt)
SecondCall == Min(CallAt \ {FirstCall})

\* The run of the end-to-end scenario: on a conversation without earlier
\* messages the first Gateway call was answered by tool_use for a registered
\* tool, the handler returned, the second Gateway call was answered by
\* end_turn with a text block, and the run is at Done.
C20_Scenario ==
    /\ pc = "done"
    /\ PriorMessages = <<>>
    /\ Cardinality(CallAt) >= 2
    /\ trace[FirstCall + 1].ev = "response"
    /\ AsksForTool(trace[FirstCall + 1].resp)
    /\ ToolUseOf(trace[FirstCall + 1].resp).name \in TOOL_HANDLERS
    /\ \E i \in 1..Len(trace) :
          /\ trace[i].ev = "handler_return"
          /\ trace[i].block = ToolUseOf(trace[FirstCall + 1].resp)
    /\ trace[SecondCall + 1].ev = "response"
    /\ trace[SecondCall + 1].resp.stop_reason = "end_turn"
    /\ \E k \in 1..Len(trace[SecondCall + 1].resp.content) :
          trace[SecondCall + 1].resp.content[k].type = "text"

\* C20: the run of the end-to-end scenario made exactly two Gateway calls,
\* both with the schema of the tool attached, invoked the handler once,
\* returned the text of the second response and left exactly one audit record,
\* naming the tool.
C20_EndToEndScenario ==
    C20_Scenario
        => /\ Cardinality(CallAt) = 2
           /\ \A j \in CallAt :
                \E k \in 1..Len(trace[j].tools) :
                    trace[j].tools[k] = ToolUseOf(trace[FirstCall + 1].resp).name
           /\ Cardinality({i \in 1..Len(trace) : trace[i].ev = "handler"}) = 1
           /\ result.full_response = TextBlocksJoined(trace[SecondCall + 1].resp)
           /\ result.full_response # <<>>
           /\ LET audit == SelectSeq(tbl_tool_calls,
                               LAMBDA r : r.message_id = user_message_id)
              IN  /\ Len(audit) = 1
                  /\ audit[1].tool_name = ToolUseOf(trace[FirstCall + 1].resp).name
                  /\ audit[1].conversation_id = conversation_id

\* C20 witness: the scenario has run for the utterance "Hi".
C20_Witness ==
    /\ C20_Scenario
    /\ user_message = <<"H", "i">>
    /\ Len(tbl_messages) >= 2

\* C21: every call of add_tool_call, a call with the arguments of an earlier
\* call included, leaves the stored records as they were and adds one record
\* behind them, under an id no stored record has.
C21_AuditLogAppends ==
    [][(pc = "handler_225" /\ pc' = "create_message_269")
        => /\ Len(tbl_tool_calls') = Len(tbl_tool_calls) + 1
           /\ SubSeq(tbl_tool_calls', 1, Len(tbl_tool_calls)) = tbl_tool_calls
           /\ \A k \in 1..Len(tbl_tool_calls) :
                tbl_tool_calls[k].id # tbl_tool_calls'[Len(tbl_tool_calls')].id]_vars

\* C21 witness: the audit log holds two records that differ in their id only.
C21_Witness ==
    \E i, j \in 1..Len(tbl_tool_calls) :
        /\ i < j
        /\ tbl_tool_calls[i].id # tbl_tool_calls[j].id
        /\ [tbl_tool_calls[i] EXCEPT !.id = 0] = [tbl_tool_calls[j] EXCEPT !.id = 0]

\* The events of the round that the response at position i of the trace
\* opened: the positions after i up to the next response.
EventsOfRound(i) ==
    {j \in (i + 1)..Len(trace) : \A r \in ResponseAt : r > i => j < r}

\* C23: in the round of a response with several ToolUse blocks a handler is
\* invoked for the first ToolUse block only, and the message lists the round
\* sends hold a tool_result for no other block of the response.
C23_OnlyFirstToolUseHonored ==
    \A i \in RoundAt :
        /\ \A j \in EventsOfRound(i) :
              trace[j].ev = "handler" => trace[j].block = ToolUseOf(trace[i].resp)
        /\ \A j \in EventsOfRound(i) : \A k \in ToolUsesIn(trace[i].resp) :
              (trace[j].ev = "create_message" /\ k # Min(ToolUsesIn(trace[i].resp)))
                 => ToolResultsFor(trace[j].msgs, trace[i].resp.content[k].id) = {}
        /\ \A j \in EventsOfRound(i) :
              trace[j].ev = "create_message"
                 => ToolResultsFor(trace[j].msgs, ToolUseOf(trace[i].resp).id) # {}

\* C23 witness: the follow-up Gateway call of a round was made for a response
\* that holds two ToolUse blocks, the second one of a registered tool.
C23_Witness ==
    \E i \in RoundDoneAt :
        /\ Cardinality(ToolUsesIn(trace[i].resp)) = 2
        /\ \E k \in ToolUsesIn(trace[i].resp) :
              /\ k # Min(ToolUsesIn(trace[i].resp))
              /\ trace[i].resp.content[k].name \in TOOL_HANDLERS

\* The create_message call before position i of the trace, and the first one
\* after it.
CallBefore(i) == Max({j \in CallAt : j < i})
CallAfter(i) == Min({j \in CallAt : j > i})

\* The rounds whose handler returned and whose follow-up call has been made.
SuccessfulRoundAt ==
    {i \in RoundDoneAt : \E j \in EventsOfRound(i) : trace[j].ev = "handler_return"}

\* C24: the message list of the Gateway call after a successful round is the
\* message list of the call before it with two messages added at its end: the
\* assistant message holding the content of the response, then the message
\* holding the tool_result for the ToolUse of the round.
C24_NextListExtendsPrevious ==
    \A i \in SuccessfulRoundAt :
        LET prev == trace[CallBefore(i)].msgs
            next == trace[CallAfter(i)].msgs
        IN  /\ Len(next) = Len(prev) + 2
            /\ SubSeq(next, 1, Len(prev)) = prev
            /\ next[Len(prev) + 1] = BlockMessage("assistant", trace[i].resp.content)
            /\ ToolResultsFor(<<next[Len(next)]>>, ToolUseOf(trace[i].resp).id) # {}

\* The positions of the trace at which a handler was invoked.
HandlerAt == {j \in 1..Len(trace) : trace[j].ev = "handler"}

\* C25: in one turn a handler is invoked only right after a Gateway response
\* with stop reason tool_use; what follows an invocation is its own return or
\* exception, never a Gateway call; and between two consecutive Gateway calls
\* lies at most one invocation.
C25_StrictlySequential ==
    /\ \A j \in HandlerAt :
          /\ j > 1
          /\ trace[j - 1].ev = "response"
          /\ trace[j - 1].resp.stop_reason = "tool_use"
          /\ j < Len(trace) => trace[j + 1].ev \in {"handler_return", "handler_error"}
    /\ \A a, b \in CallAt :
          (a < b /\ \A c \in CallAt : ~(a < c /\ c < b))
             => Cardinality({j \in HandlerAt : a < j /\ j < b}) <= 1
    /\ pc = "handler_225" => trace[Len(trace)].ev = "handler"
    /\ pc \in {"create_message_158", "create_message_269", "create_message_302",
               "create_message_332"} => trace[Len(trace)].ev = "create_message"

\* C25 witness: a run has invoked handlers in two rounds and is at Done.
C25_Witness ==
    /\ pc = "done"
    /\ Cardinality(HandlerAt) >= 2
    /\ Cardinality(CallAt) >= 3

\* The text blocks of a response, in block order.
TextBlocksOf(resp) == SelectSeq(resp.content, LAMBDA b : b.type = "text")

\* C28: the speakable_chunks a run returns are one chunk for every text block
\* of the last response, in block order, each holding the text of its block
\* and flagged speakable; their texts joined in order are full_response.
C28_OneSpeakableChunkPerTextBlock ==
    (pc = "done")
        => /\ Len(result.speakable_chunks) = Len(TextBlocksOf(LastResponse))
           /\ \A i \in 1..Len(result.speakable_chunks) :
                /\ result.speakable_chunks[i].text = TextBlocksOf(LastResponse)[i].text
                /\ result.speakable_chunks[i].speakable = TRUE
           /\ Concat([i \in 1..Len(result.speakable_chunks) |->
                         result.speakable_chunks[i].text]) = result.full_response

\* C28 witness: a run returned two chunks for a last response of two text
\* blocks, after a dispatch round.
C28_Witness ==
    /\ pc = "done"
    /\ Len(result.speakable_chunks) = 2
    /\ result.speakable_chunks[1].text # result.speakable_chunks[2].text
    /\ RoundDoneAt # {}

\* The rows of conversation cid in the order add_message appended them.
AppendedRows(cid) == SelectSeq(tbl_messages, LAMBDA r : r.conversation_id = cid)

ConversationEndpoints ==
    {"get_conversation_details", "delete_conversation", "update_conversation_title",
     "send_message"}
TakesConversationRequest ==
    /\ n_requests' = n_requests + 1
    /\ http_request'.endpoint \in ConversationEndpoints
    /\ http_request'.conversation_id # "new"

\* The session of the request a step takes is valid, its conversation exists,
\* its user owns the conversation, in the state the request arrives in.
RequestUser == GetUserFromSession(http_request'.session_token, clock')
RequestConversation == GetConversation(tbl_conversations, http_request'.conversation_id)
ValidSession == RequestUser # NoUser
OwnConversation ==
    /\ RequestConversation # NoConversation
    /\ RequestConversation.user_id = RequestUser.id

\* The step answers at once, calls no Gateway and leaves the conversations,
\* the messages and the audit records as they are.
RejectedWith(status) ==
    /\ status_code' = status
    /\ pc' = "responded"
    /\ ~http_response'.success
    /\ http_response'.messages = <<>>
    /\ n_calls' = n_calls
    /\ trace' = trace
    /\ tbl_conversations' = tbl_conversations
    /\ tbl_messages' = tbl_messages
    /\ tbl_tool_calls' = tbl_tool_calls

\* C22: an audit record, once written, stays as it is: every step leaves the
\* records table tool_calls holds in place and only adds records after them.
C22_AuditLogAppendOnly ==
    [][ /\ Len(tbl_tool_calls') >= Len(tbl_tool_calls)
        /\ SubSeq(tbl_tool_calls', 1, Len(tbl_tool_calls)) = tbl_tool_calls ]_vars

\* C29 as stated: a request to a conversation endpoint gets 401 without a
\* valid session, 404 for a conversation that does not exist, 403 for a
\* conversation of another user, each without any effect; it takes effect only
\* for the owner.
C29_OwnerOnly ==
    [][ TakesConversationRequest =>
          /\ ~ValidSession => RejectedWith(401)
          /\ ValidSession /\ RequestConversation = NoConversation => RejectedWith(404)
          /\ ValidSession /\ RequestConversation # NoConversation /\ ~OwnConversation
                => RejectedWith(403) ]_vars

\* The request a step takes is a rename without a title.
RenameWithoutTitle ==
    /\ http_request'.endpoint = "update_conversation_title"
    /\ http_request'.title = None

\* C29 amended: as C29, except that a rename without a title, sent with a
\* valid session, gets 400 whatever the conversation, also without any effect.
C29_OwnerOnlyOrBadRequest ==
    [][ TakesConversationRequest =>
          /\ ~ValidSession => RejectedWith(401)
          /\ ValidSession /\ RenameWithoutTitle => RejectedWith(400)
          /\ ValidSession /\ ~RenameWithoutTitle /\ RequestConversation = NoConversation
                => RejectedWith(404)
          /\ ValidSession /\ ~RenameWithoutTitle /\ RequestConversation # NoConversation
                /\ ~OwnConversation
                => RejectedWith(403)
          /\ ~RejectedWith(status_code') => ValidSession /\ OwnConversation ]_vars

\* C29 witness: bob, logged in, has asked to delete the conversation of alice
\* and got 403; the conversation and its messages are in the store.
C29_Witness ==
    /\ pc = "responded"
    /\ http_request.endpoint = "delete_conversation"
    /\ http_request.conversation_id = "1"
    /\ http_request.session_token \in DOMAIN active_sessions
    /\ active_sessions[http_request.session_token].user_id = OtherUserId
    /\ status_code = 403
    /\ GetConversation(tbl_conversations, "1") # NoConversation
    /\ tbl_messages # <<>>

\* C30: a session is created only by a login request that carries a password
\* whose hash is the stored password hash of the user of the request.
C30_SessionOnlyWithPassword ==
    [][ DOMAIN active_sessions' # DOMAIN active_sessions /\ active_sessions' # <<>> =>
          /\ http_request'.endpoint = "login"
          /\ http_request'.password # None
          /\ HashPassword(http_request'.password)
                = GetUserByUsername(tbl_users, http_request'.username).password_hash ]_vars

\* ------------------------------------------ requests handled concurrently

\* The rows of a table that belong to conversation cid, in the order of the
\* table.
RowsOf(tbl, cid) == SelectSeq(tbl, LAMBDA r : r.conversation_id = cid)

\* What the turn of thread w stores when it runs alone and has come as far as
\* it has: the user message of send_message, the user message of
\* generate_full_response and, once the turn is done, the assistant message.
AloneMessages(w) ==
    (IF threads[w].pc = "idle" THEN <<>>
     ELSE << <<"user", ThreadUtterance[w], ThreadUser[w]>> >>) \o
    (IF threads[w].pc \in {"idle", "add_message_105"} THEN <<>>
     ELSE << <<"user", ThreadUtterance[w], None>> >>) \o
    (IF threads[w].pc # "done" THEN <<>>
     ELSE << <<"assistant", HistoryResponse(threads[w].response.content), None>> >>)

\* C26: with the turns of two conversations interleaved in any way, the
\* message log of each conversation holds what its own turn wrote, in the order
\* the turn wrote it, which is what the turn stores when it runs alone; its
\* audit records are those of its own tool calls, each naming a message of the
\* conversation; and no row of either table belongs to any other conversation.
C26_ConversationsIsolated ==
    /\ \A w \in Threads :
         LET own == RowsOf(tbl_messages, ThreadConversation[w])
             calls == RowsOf(tbl_tool_calls, ThreadConversation[w])
         IN  /\ [i \in 1..Len(own) |-> WrittenMessage(own[i])] = threads[w].wrote
             /\ threads[w].wrote = AloneMessages(w)
             /\ [i \in 1..Len(calls) |-> WrittenToolCall(calls[i])] = threads[w].audited
             /\ \A i \in 1..Len(calls) :
                  \E j \in 1..Len(own) :
                     /\ own[j].id = calls[i].message_id
                     /\ own[j].id = threads[w].user_message_id
    /\ \A i \in 1..Len(tbl_messages) :
         \E w \in Threads : tbl_messages[i].conversation_id = ThreadConversation[w]
    /\ \A i \in 1..Len(tbl_tool_calls) :
         \E w \in Threads : tbl_tool_calls[i].conversation_id = ThreadConversation[w]

\* C26 witness: both turns are done, each after a tool call, and their rows
\* alternate in table messages.
C26_Witness ==
    /\ \A w \in Threads : threads[w].pc = "done" /\ threads[w].audited # <<>>
    /\ \E i \in 1..Len(tbl_messages) - 2 :
         /\ tbl_messages[i].conversation_id # tbl_messages[i + 1].conversation_id
         /\ tbl_messages[i + 1].conversation_id # tbl_messages[i + 2].conversation_id

\* ------------------------------------------------------------ later claims

\* C33: a send_message request that was processed successfully has appended
\* one user message and one assistant message: after the first successful
\* request on a conversation without messages the conversation holds two
\* messages, user then assistant.
C33_TwoMessagesPerTurn ==
    (pc = "responded" /\ http_response.success /\ n_turns = 1)
        => /\ Len(AppendedRows(conversation_id)) = 2
           /\ AppendedRows(conversation_id)[1].sender = "user"
           /\ AppendedRows(conversation_id)[2].sender = "assistant"

\* A message list holds the text u: as part of the text of a message.
MentionsText(msgs, u) == \E k \in 1..Len(msgs) : Contains(msgs[k].text, u)

\* C34: the message list of every Gateway call of a run holds the text of the
\* utterance of the run.
C34_UtteranceInEveryCall ==
    \A i \in CallAt : MentionsText(trace[i].msgs, user_message)

\* A step in which delete_conversation_endpoint calls delete_conversation.
DeletesConversation ==
    /\ n_requests' = n_requests + 1
    /\ http_request'.endpoint = "delete_conversation"
    /\ status_code' = 200

TakesLogout ==
    /\ n_requests' = n_requests + 1
    /\ http_request'.endpoint = "logout"

\* C36: a token whose logout returned True gives no user in any later state,
\* whatever requests follow, and a logout leaves the session of every other
\* token as it is.
C36_LoggedOutStaysOut ==
    [][ /\ \A token \in logged_out' : GetUserFromSession(token, clock)' = NoUser
        /\ TakesLogout =>
             \A other \in DOMAIN active_sessions \ {http_request'.session_token} :
                /\ other \in DOMAIN active_sessions'
                /\ active_sessions'[other] = active_sessions[other]
                /\ GetUserFromSession(other, clock)' = GetUserFromSession(other, clock) ]_vars

\* C36 witness: a token that was logged out has been presented again and was
\* refused, while the session of bob is still valid.
C36_Witness ==
    /\ pc = "responded"
    /\ http_request.endpoint = "get_conversation_details"
    /\ http_request.session_token \in logged_out
    /\ status_code = 401
    /\ GetUserFromSession("token_b", clock) # NoUser

\* A step in which send_message takes a request and rejects it.
RejectsSendMessage ==
    /\ n_requests' = n_requests + 1
    /\ http_request'.endpoint = "send_message"
    /\ status_code' \in {400, 401, 403, 404}

\* C38: a request to send_message that is rejected with 400, 401, 403 or 404
\* leaves the store as it is: no conversation is created, no message is
\* appended, no Gateway call is made.
C38_RejectedSendChangesNothing ==
    [][ RejectsSendMessage =>
          /\ tbl_conversations' = tbl_conversations
          /\ tbl_messages' = tbl_messages
          /\ tbl_tool_calls' = tbl_tool_calls
          /\ n_calls' = n_calls ]_vars

\* ------------------------------------------- registration (user_manager.py)

\* The registrations of one caller.
MaxRegistrations == 1

\* The usernames the callers ask for: one that is registered, two that are not.
RegisteredNames == {"alice", "carol", "dave"}
RegisteredPasswords == {None, "guess"}

\* What register_user returns: (success, user_id or error message).
Registered(username, success, value) ==
    [username |-> username, success |-> success, value |-> value]

\* Mutant: the column username is declared without UNIQUE.
CreateUser_NoConstraint(users, seq, username, password_hash) ==
    [raised |-> FALSE, error |-> <<>>, user_id |-> Digit[seq + 1],
     users |-> Append(users, UserRow(Digit[seq + 1], username, password_hash)),
     seq |-> seq + 1]

\* create_user(username, email, password_hash) on table users, whose column
\* username is UNIQUE: the INSERT raises sqlite3.IntegrityError when a row
\* holds the username, and inserts the row with the next id otherwise.
CreateUser(users, seq, username, password_hash) ==
    IF \E i \in 1..Len(users) : users[i].username = username
    THEN [raised |-> TRUE, error |-> <<"UNIQUE constraint failed: users.username">>,
          user_id |-> None, users |-> users, seq |-> seq]
    ELSE [raised |-> FALSE, error |-> <<>>, user_id |-> Digit[seq + 1],
          users |-> Append(users, UserRow(Digit[seq + 1], username, password_hash)),
          seq |-> seq + 1]

\* Caller c goes to position p with the changes ch of its locals.
CallerStep(c, p, ch) ==
    /\ registering' = [registering EXCEPT ![c] = [f \in DOMAIN registering[c] |->
                          IF f = "pc" THEN p
                          ELSE IF f \in DOMAIN ch THEN ch[f] ELSE registering[c][f]]]
    /\ UNCHANGED <<tbl_messages, tbl_tool_calls, clock, pc, locals, observed, request,
                   tbl_conversations, active_sessions, logged_out, endpoint, threads,
                   framework>>

\* register_user(username, None, password) is called.
RegisterUser(c, username, password) ==
    /\ registering[c].pc = "idle"
    /\ registering[c].calls < MaxRegistrations
    /\ CallerStep(c, "get_user_by_username_71",
                  [username |-> username, password |-> password,
                   calls |-> registering[c].calls + 1])
    /\ UNCHANGED <<tbl_users, sqlite_sequence>>

\* existing_user = get_user_by_username(username), and the return when the
\* username exists.
RegisterChecks(c) ==
    /\ registering[c].pc = "get_user_by_username_71"
    /\ LET username == registering[c].username
           existing_user == GetUserByUsername(tbl_users, username)
       IN  IF existing_user # NoUser
           THEN CallerStep(c, "idle",
                    [returned |-> Append(registering[c].returned,
                        Registered(username, FALSE,
                                   <<"Username '", username, "' already exists">>))])
           ELSE CallerStep(c, "create_user_81", [username |-> username])
    /\ UNCHANGED <<tbl_users, sqlite_sequence>>

\* password_hash, user_id = create_user(...), return True, user_id; and the
\* except branch: return False, str(e).
RegisterCreates(c) ==
    /\ registering[c].pc = "create_user_81"
    /\ LET username == registering[c].username
           password == registering[c].password
           password_hash == IF password # None THEN HashPassword(password) ELSE NoHash
           ins == CreateUser(tbl_users, sqlite_sequence.users, username, password_hash)
       IN  /\ tbl_users' = ins.users
           /\ sqlite_sequence' = [sqlite_sequence EXCEPT !.users = ins.seq]
           /\ CallerStep(c, "idle",
                  [returned |-> Append(registering[c].returned,
                      IF ins.raised THEN Registered(username, FALSE, ins.error)
                      ELSE Registered(username, TRUE, <<ins.user_id>>))])

\* Registrations of the callers, their steps interleaved in any order.
NextRegister ==
    \/ \E c \in Callers, username \in RegisteredNames, password \in RegisteredPasswords :
          RegisterUser(c, username, password)
    \/ \E c \in Callers : RegisterChecks(c)
    \/ \E c \in Callers : RegisterCreates(c)

RegisterSpec == Init /\ [][NextRegister]_vars

\* What the calls of register_user have returned so far, per caller, and the
\* successful ones for a username.
ReturnedBy(c) == registering[c].returned
SuccessesFor(username) ==
    { <<c, k>> \in Callers \X (1..MaxRegistrations) :
         /\ k <= Len(ReturnedBy(c))
         /\ ReturnedBy(c)[k].username = username
         /\ ReturnedBy(c)[k].success }
RowsNamed(username) == SelectSeq(tbl_users, LAMBDA r : r.username = username)

\* C37: usernames are unique in the user store after any sequence of
\* registrations, interleaved ones included: no two rows of table users hold
\* the same username, at most one call of register_user for a username
\* returns success, every other call for it returns (False, error), and when
\* one has succeeded the store holds exactly one user with that username.
C37_UsernamesUnique ==
    /\ \A i, j \in 1..Len(tbl_users) :
          tbl_users[i].username = tbl_users[j].username => i = j
    /\ \A username \in RegisteredNames :
          /\ Cardinality(SuccessesFor(username)) <= 1
          /\ SuccessesFor(username) # {} => Len(RowsNamed(username)) = 1
          /\ Len(RowsNamed(username)) =
               Cardinality(SuccessesFor(username))
                 + Len(SelectSeq(RegisteredUsers, LAMBDA r : r.username = username))
    /\ \A c \in Callers : \A k \in 1..Len(ReturnedBy(c)) :
          ~ReturnedBy(c)[k].success => ReturnedBy(c)[k].value # <<>>

\* Two calls for the same username have both passed the check; one has
\* inserted the user, the INSERT of the other was refused.
C37_Witness ==
    \E c, d \in Callers :
        /\ c # d
        /\ ReturnedBy(c) # <<>> /\ ReturnedBy(d) # <<>>
        /\ ReturnedBy(c)[1].username = ReturnedBy(d)[1].username
        /\ ReturnedBy(c)[1].success
        /\ ReturnedBy(d)[1] = Registered(ReturnedBy(d)[1].username, FALSE,
                                 <<"UNIQUE constraint failed: users.username">>)

\* --------------------------------- the tools framework (Tools.py, main.py)

\* The calls of create_message in a run of the customer-service assistant.
MaxFrameworkCalls == 4

\* customer_service_handlers
tool_handlers == {"get_customer_info", "get_order_details", "cancel_order"}

\* What a handler does: it returns a value or raises.
ToolReturns(value) == [raised |-> FALSE, value |-> value, error |-> <<>>]
ToolRaises(error) == [raised |-> TRUE, value |-> JEmpty, error |-> error]

\* params[key]: the value, or KeyError(key)
HasKey(params, key) == params.kind = "dict" /\ params # JEmpty /\ params.key = key

\* get_customer_info(params); of the record of a customer its name stands
\* for the whole mapping.
get_customer_info(params) ==
    IF ~HasKey(params, <<"customer_id">>) THEN ToolRaises(<<"'customer_id'">>)
    ELSE IF params.val = <<"C1">> THEN ToolReturns(JDict(<<"name">>, <<"John Doe">>))
    ELSE IF params.val = <<"C2">> THEN ToolReturns(JDict(<<"name">>, <<"Jane Smith">>))
    ELSE ToolReturns(JStr(<<"Customer not found">>))

\* get_order_details(params); of the record of an order its product stands
\* for the whole mapping.
get_order_details(params) ==
    IF ~HasKey(params, <<"order_id">>) THEN ToolRaises(<<"'order_id'">>)
    ELSE IF params.val = <<"O1">> THEN ToolReturns(JDict(<<"product">>, <<"Widget A">>))
    ELSE IF params.val = <<"O2">> THEN ToolReturns(JDict(<<"product">>, <<"Gadget B">>))
    ELSE ToolReturns(JStr(<<"Order not found">>))

\* cancel_order(params); of the mapping it returns its message is kept.
cancel_order(params) ==
    IF ~HasKey(params, <<"order_id">>) THEN ToolRaises(<<"'order_id'">>)
    ELSE IF params.val \in { <<"O1">>, <<"O2">> }
    THEN ToolReturns(JDict(<<"message">>,
                              <<"Order ">> \o params.val \o <<" has been cancelled.">>))
    ELSE ToolReturns(JDict(<<"message">>,
                              <<"Order ">> \o params.val
                                  \o <<" not found or cannot be cancelled.">>))

\* self.tool_handlers[tool_name](tool_input)
CallToolHandler(tool_name, tool_input) ==
    CASE tool_name = "get_customer_info" -> get_customer_info(tool_input)
      [] tool_name = "get_order_details" -> get_order_details(tool_input)
      [] OTHER -> cancel_order(tool_input)

\* str(value) of a plain string
Str(value) == value.val

\* the content of the tool_result block (Tools.py line 86)
ToolResultContent(tool_result) ==
    IF tool_result.kind \in {"dict", "list"} THEN JsonDumps(tool_result)
    ELSE Str(tool_result)

\* next((block.text for block in response.content if hasattr(block, "text")), None)
FirstText(content) ==
    LET texts == SelectSeq(content, LAMBDA b : b.type = "text")
    IN  IF texts = <<>> THEN <<>> ELSE texts[1].text

\* The tool_use blocks the model asks for: the tool and its input.
CustomerToolUses ==
    { <<"get_customer_info", JDict(<<"customer_id">>, <<"C1">>)>>,
      <<"get_customer_info", JDict(<<"customer_id">>, <<"C9">>)>>,
      <<"cancel_order", JEmpty>>,
      <<"refund_order", JDict(<<"order_id">>, <<"O1">>)>> }

\* The responses of the API to call number n of the run: a final answer, a
\* request for a tool, or the stop reason tool_use without a tool_use block.
FrameworkResponses(n) ==
    { [stop_reason |-> "end_turn", content |-> <<TextBlock(<<"Done.">>)>>],
      [stop_reason |-> "tool_use", content |-> <<TextBlock(<<"Hmm.">>)>>] }
    \cup { [stop_reason |-> "tool_use",
            content |-> <<TextBlock(<<"Let me check.">>),
                          ToolUseBlock("toolu_" \o Digit[n], tu[1], tu[2])>>] :
           tu \in CustomerToolUses }

\* Mutant: the user message is appended to the list the caller gave.
ProcessMessageMessages_InPlace(history, utterance) ==
    [messages |-> history \o <<TextMessage("user", utterance)>>,
     conversation_history |-> history \o <<TextMessage("user", utterance)>>]

\* The list messages of process_message (lines 45-48), a new list, and the
\* list the caller gave after it.
ProcessMessageMessages(history, utterance) ==
    [messages |-> IF Len(history) = 0
                  THEN <<TextMessage("user", utterance)>>
                  ELSE history \o <<TextMessage("user", utterance)>>,
     conversation_history |-> history]

\* The assistant goes to position p with the changes ch of its locals.
FrameworkStep(p, ch) ==
    /\ framework' = [f \in DOMAIN framework |->
                        IF f = "pc" THEN p
                        ELSE IF f \in DOMAIN ch THEN ch[f] ELSE framework[f]]
    /\ UNCHANGED <<store, pc, locals, observed, request, accounts, endpoint, threads,
                   registering>>

\* result = framework.process_message(user_input, conversation_history)
ProcessMessage(user_input) ==
    /\ framework.pc = "input_75"
    /\ framework.n_calls < MaxFrameworkCalls
    /\ LET m == ProcessMessageMessages(framework.conversation_history, user_input)
       IN  FrameworkStep("create_message_51",
               [user_message |-> user_input, given |-> framework.conversation_history,
                messages |-> m.messages, conversation_history |-> m.conversation_history,
                response |-> NoResponse, result |-> NoFrameworkResult, rounds |-> <<>>,
                inputs |-> framework.inputs + 1])

\* response = self._create_message(messages) returns (lines 51 and 93)
FrameworkCallReturns ==
    /\ framework.pc \in {"create_message_51", "create_message_93"}
    /\ \E resp \in FrameworkResponses(framework.n_calls + 1) :
          /\ resp.stop_reason = "tool_use" => framework.n_calls + 1 < MaxFrameworkCalls
          /\ FrameworkStep("while_57",
                 [response |-> resp, n_calls |-> framework.n_calls + 1])

\* self._create_message(messages) raises: the exception leaves process_message
FrameworkCallRaises ==
    /\ framework.pc \in {"create_message_51", "create_message_93"}
    /\ \E e \in GatewayErrors :
          FrameworkStep("except_86",
              [result |-> FrameworkResult("raised", <<>>, <<>>, "create_message", e),
               n_calls |-> framework.n_calls + 1])

\* One round of the while loop (lines 57-90): the first tool_use block, the
\* handler, the two messages.
FrameworkDispatches ==
    /\ framework.pc = "while_57"
    /\ framework.response.stop_reason = "tool_use"
    /\ LET resp == framework.response
           uses == SelectSeq(resp.content, LAMBDA b : b.type = "tool_use")
       IN  IF uses = <<>>
           THEN \* next() without a default raises StopIteration
                FrameworkStep("except_86",
                    [result |-> FrameworkResult("raised", <<>>, <<>>, "next", <<>>)])
           ELSE LET tu == uses[1]
                    called == IF tu.name \in tool_handlers
                              THEN CallToolHandler(tu.name, tu.input)
                              ELSE ToolReturns(JDict(<<"error">>,
                                                        <<"Unknown tool: ", tu.name>>))
                IN  IF called.raised
                    THEN FrameworkStep("except_86",
                             [result |-> FrameworkResult("raised", <<>>, <<>>, "handler",
                                                         called.error)])
                    ELSE FrameworkStep("create_message_93",
                             [messages |-> WithToolResult(framework.messages, resp, tu.id,
                                               ToolResultContent(called.value)),
                              rounds |-> Append(framework.rounds,
                                            [response |-> resp, tool_use_id |-> tu.id,
                                             tool_result |-> called.value])])

\* The loop is over: process_message returns (lines 98-110).
FrameworkReturns ==
    /\ framework.pc = "while_57"
    /\ framework.response.stop_reason # "tool_use"
    /\ FrameworkStep("return_106",
           [result |-> FrameworkResult("returned", FirstText(framework.response.content),
                           framework.messages
                              \o <<BlockMessage("assistant", framework.response.content)>>,
                           "", <<>>)])

\* conversation_history = result["conversation"] (main.py line 82)
RunCustomerServiceAssigns ==
    /\ framework.pc = "return_106"
    /\ FrameworkStep("input_75",
           [conversation_history |-> framework.result.conversation])

\* except Exception as e: the error is printed (main.py lines 86-88)
RunCustomerServiceExcept ==
    /\ framework.pc = "except_86"
    /\ FrameworkStep("input_75", [inputs |-> framework.inputs])

\* run_customer_service: the loop over the inputs of the user.
NextFramework ==
    \/ \E user_input \in Utterances : ProcessMessage(user_input)
    \/ FrameworkCallReturns
    \/ FrameworkCallRaises
    \/ FrameworkDispatches
    \/ FrameworkReturns
    \/ RunCustomerServiceAssigns
    \/ RunCustomerServiceExcept

FrameworkSpec == Init /\ [][NextFramework]_vars

\* C31: in ToolsFramework.process_message a handler that raises is recovered
\* locally (its exception becomes an error tool result that goes back to the
\* model): no exception of a handler leaves process_message.
C31_HandlerErrorRecovered ==
    ~(framework.result.kind = "raised" /\ framework.result.raised_by = "handler")

\* The tool_result message of dispatch round k of the call of process_message.
FrameworkToolResult(k) == framework.messages[Len(framework.given) + 1 + 2 * k]

\* C32: the content of every tool_result block that the loop of
\* ToolsFramework.process_message sends to the model is the JSON
\* serialization of what the handler returned, a plain string included.
C32_ToolResultIsJson ==
    \A k \in 1..Len(framework.rounds) :
        FrameworkToolResult(k).blocks[1].content
            = JsonDumps(framework.rounds[k].tool_result)

RECURSIVE RoundMessages(_)
\* For each dispatch round the assistant message with the response of the
\* round, then the user message with the tool_result block for its tool_use.
RoundMessages(rounds) ==
    IF rounds = <<>> THEN <<>>
    ELSE << BlockMessage("assistant", Head(rounds).response.content),
            ToolResultMessage(Head(rounds).tool_use_id,
                              ToolResultContent(Head(rounds).tool_result)) >>
            \o RoundMessages(Tail(rounds))

IsPrefix(s, t) == Len(s) <= Len(t) /\ SubSeq(t, 1, Len(s)) = s

\* C35: process_message leaves the list conversation_history it is given as
\* it is; the conversation it returns is that history, the new user message,
\* for each dispatch round the assistant message and its tool_result message,
\* and the final assistant message; and the history that run_customer_service
\* feeds into the next call keeps every earlier message in place.
C35_HistoryKept ==
    [][ /\ framework.pc # "return_106"
           => framework'.conversation_history = framework.conversation_history
        /\ framework'.pc = "return_106"
           => /\ framework'.given = framework'.conversation_history
              /\ framework'.result.conversation
                   = framework'.given
                       \o <<TextMessage("user", framework'.user_message)>>
                       \o RoundMessages(framework'.rounds)
                       \o <<BlockMessage("assistant", framework'.response.content)>>
        /\ framework.pc = "return_106"
           => /\ framework'.conversation_history = framework.result.conversation
              /\ IsPrefix(framework.conversation_history,
                          framework'.conversation_history) ]_vars

\* A call that was given the conversation of an earlier call has dispatched
\* a tool and returned, and its conversation is the history of the next call.
C35_Witness ==
    /\ framework.pc = "input_75"
    /\ framework.result.kind = "returned"
    /\ framework.given # <<>>
    /\ framework.rounds # <<>>
    /\ framework.conversation_history = framework.result.conversation

====
